---- MODULE Spec2Model ----
(***************************************************************************)
(* SMTPConnection (lib/smtp-connection.js): the SMTP/LMTP client engine.   *)
(*                                                                         *)
(* The object's fields are the record conn, the transport is the record    *)
(* socket, and every method of the class is an operator from a world (all  *)
(* the state) to the world after the call, so that a method that calls     *)
(* another (_onError -> close -> _destroy) is the composition of the       *)
(* operators.  Server text is a sequence of tokens: a status code, "-" or  *)
(* " ", keywords, and the line terminators "\r" and "\n".                  *)
(***************************************************************************)
EXTENDS Integers, Sequences, FiniteSets, TLC

VARIABLES
    options,     \* this.options: the configuration, fixed at construction
    conn,        \* the fields of the SMTPConnection object
    socket,      \* this._socket: the transport
    emitted,     \* the events emitted so far ('connect', 'error', 'end')
    written,     \* the commands written to the transport so far
    immediates,  \* callbacks scheduled with setImmediate, in order
    user,        \* the caller's side: the operations called and their callbacks
    lastEHLO,    \* history: the last response to EHLO or LHLO, <<>> before it
    tracing,     \* whether this session keeps the history below
    trace        \* history: the handlers pushed, the commands written and the
                 \* handlers called, in the order the code did it

vars == <<options, conn, socket, emitted, written, immediates, user, lastEHLO,
          tracing, trace>>

----------------------------------------------------------------------------
(* Bounds of the model *)

MaxRcpt == 2        \* recipients of an envelope
MaxSends == 1       \* send() calls on a connection
MaxResets == 1      \* reset() calls on a connection
MaxPending == 2     \* lines of server text not yet dispatched, those of a new chunk included
MaxStreamErrors == 1 \* 'error' events of one message stream
MaxImmediates == 1  \* setImmediate callbacks that may be pending when a chunk arrives
MaxLogins == 1      \* login() calls on a connection
MaxChallenges == 2  \* responses 334 of the server that get an answer
MaxStream == 10     \* characters a server sends in a session whose chunks are cut anywhere

----------------------------------------------------------------------------
(* Strings *)

\* the status codes the server answers with, each one token
Codes == {"220", "235", "250", "334", "354", "421", "502", "550"}

\* str.charAt(0)
charAt0(str) ==
    IF str = <<>> THEN ""
    ELSE CASE str[1] \in {"220", "235", "250"} -> "2"
           [] str[1] \in {"334", "354"} -> "3"
           [] str[1] = "421" -> "4"
           [] str[1] \in {"502", "550"} -> "5"
           [] OTHER -> str[1]

\* str.substr(0, 3)
substr03(str) == IF str = <<>> THEN "" ELSE str[1]

\* the index of the last "\n" of str, 0 when there is none
RECURSIVE lastNewline(_, _)
lastNewline(str, i) ==
    IF i = 0 THEN 0
    ELSE IF str[i] = "\n" THEN i ELSE lastNewline(str, i - 1)

\* str.split('\n').pop()
lastLineOf(str) ==
    SubSeq(str, lastNewline(str, Len(str)) + 1, Len(str))

\* /^\d+-/.test(line)
isContinuation(line) ==
    Len(line) >= 2 /\ line[1] \in Codes /\ line[2] = "-"

\* !str.trim()
isBlank(str) == \A i \in 1..Len(str) : str[i] \in {" ", "\r", "\n"}

\* /[ -]KEYWORD\b/mi.test(str)
hasKeyword(str, kw) ==
    \E i \in 1..(Len(str) - 1) : str[i] \in {" ", "-"} /\ str[i + 1] = kw

\* (data).split(/\r?\n/): the pieces between the line terminators
RECURSIVE splitLines(_, _)
splitLines(data, cur) ==
    IF data = <<>> THEN <<cur>>
    ELSE IF data[1] = "\n"
         THEN <<cur>> \o splitLines(Tail(data), <<>>)
         ELSE IF data[1] = "\r" /\ Len(data) >= 2 /\ data[2] = "\n"
              THEN <<cur>> \o splitLines(Tail(Tail(data)), <<>>)
              ELSE splitLines(Tail(data), Append(cur, data[1]))

----------------------------------------------------------------------------
(* The world: every piece of state, as one record *)

World ==
    [options |-> options, conn |-> conn, socket |-> socket, emitted |-> emitted,
     written |-> written, immediates |-> immediates, user |-> user,
     lastEHLO |-> lastEHLO, tracing |-> tracing, trace |-> trace]

\* a response handler of _responseActions: the method, and what its closure holds
Handler(action, cb, recipient, final) ==
    [action |-> action, cb |-> cb, recipient |-> recipient, final |-> final]

PlainHandler(action) == Handler(action, 0, <<>>, FALSE)

NoEnvelope ==
    [set |-> FALSE, from |-> <<>>, to |-> <<>>, size |-> 0, rcptQueue |-> <<>>,
     accepted |-> <<>>, rejected |-> <<>>, rejectedErrors |-> <<>>]

\* this._auth before login(): the credentials are what login() branches on,
\* xoauth2 ("" for none, "string" for a token, "provider" for an object with
\* getToken and generateToken) and domain
NoAuth == [xoauth2 |-> "", domain |-> FALSE]

\* the fields set by the constructor (_auth and _authMethod are set by login)
NewConnection(opts) ==
    [stage |-> "init",
     authenticated |-> FALSE,
     destroyed |-> FALSE,
     secure |-> opts.secure,
     remainder |-> <<>>,
     responseQueue |-> <<>>,
     supportedAuth |-> <<>>,
     envelope |-> NoEnvelope,
     supportedExtensions |-> <<>>,
     maxAllowedSize |-> 0,
     responseActions |-> <<>>,
     recipientQueue |-> <<>>,
     greetingTimeout |-> FALSE,
     connectionTimeout |-> FALSE,
     closing |-> FALSE,
     upgrading |-> FALSE,
     auth |-> NoAuth,
     authMethod |-> ""]

\* the transport before connect(): no socket yet
NoSocket ==
    [state |-> "none",       \* none, connecting, open, closed
     layer |-> "plain",      \* plain, handshake (TLS being negotiated), tls
     destroyed |-> FALSE,    \* socket.destroyed
     ended |-> FALSE,        \* socket.end() was called
     peerEnded |-> FALSE,    \* the 'end' event was delivered
     listening |-> FALSE,    \* _onConnect attached data/close/end/timeout
     inflight |-> <<>>,      \* bytes of the server not yet delivered as 'data'
     sent |-> <<>>,          \* history: all the bytes the server wrote
     calls |-> <<>>]         \* the end() and destroy() calls made on it

\* one more step of the code in the history: the push or the call ("push",
\* "call") of the handler what, with the response str it is called with, or
\* the writing ("write") of the command what with the argument str
traced(w, e, what, str) ==
    IF w.tracing THEN [w EXCEPT !.trace = Append(@, [e |-> e, what |-> what, str |-> str])]
    ELSE w

emit(w, event, code, command) ==
    [w EXCEPT !.emitted = Append(@, [event |-> event, code |-> code, command |-> command])]

----------------------------------------------------------------------------
(* The transport *)

\* this._socket[closeMethod](): end() half-closes the socket, which then still
\* delivers what the peer sends and its 'end' and 'close'; destroy() drops it.
socketCall(w, closeMethod) ==
    IF closeMethod = "destroy"
    THEN [w EXCEPT !.socket.destroyed = TRUE, !.socket.state = "closed",
                   !.socket.calls = Append(@, "destroy")]
    ELSE [w EXCEPT !.socket.ended = TRUE, !.socket.calls = Append(@, "end")]

----------------------------------------------------------------------------
(* Closing and errors *)

\* _destroy without its guard: 'end' again on every call
_destroy_unguarded(w) ==
    emit([w EXCEPT !.conn.destroyed = TRUE], "end", "", "")

_destroy(w) ==
    IF w.conn.destroyed THEN w
    ELSE emit([w EXCEPT !.conn.destroyed = TRUE], "end", "", "")

\* close() without the _closing guard
closeAlreadyRan_never(w) == FALSE

\* the guard of close(): "allow to run this function only once"
closeAlreadyRan(w) == w.conn.closing

close(w) ==
    LET cleared == [w EXCEPT !.conn.connectionTimeout = FALSE,
                             !.conn.greetingTimeout = FALSE,
                             !.conn.responseActions = <<>>]
        closeMethod == IF w.conn.stage = "init" THEN "destroy" ELSE "end"
        marked == [cleared EXCEPT !.conn.closing = TRUE]
    IN  IF closeAlreadyRan(w) THEN cleared
        ELSE _destroy(IF marked.socket.state # "none" /\ ~marked.socket.destroyed
                      THEN socketCall(marked, closeMethod)
                      ELSE marked)

\* _onError that emits 'error' and leaves the connection open
_onError_withoutClose(w, type, command) ==
    IF w.conn.destroyed THEN w ELSE emit(w, "error", type, command)

_onError(w, type, command) ==
    LET cleared == [w EXCEPT !.conn.connectionTimeout = FALSE,
                             !.conn.greetingTimeout = FALSE]
    IN  IF w.conn.destroyed THEN cleared
        ELSE close(emit(cleared, "error", type, command))

\* _onClose that never reports the closing
_onClose_alwaysSilent(w) == _destroy(w)

_onClose(w) ==
    LET head == IF w.conn.responseActions = <<>> THEN "undefined"
                ELSE w.conn.responseActions[1].action
    IN  IF head \notin {"_actionGreeting", "close"} /\ ~w.conn.destroyed
        THEN _onError(w, "ECONNECTION", "CONN")
        ELSE _destroy(w)

_onEnd(w) == _destroy(w)

_onTimeout(w) == _onError(w, "ETIMEDOUT", "CONN")

_sendCommand(w, cmd, arg) ==
    IF w.conn.destroyed THEN w
    ELSE IF w.socket.destroyed THEN close(w)
    ELSE traced([w EXCEPT !.written = Append(@, [cmd |-> cmd, arg |-> arg])],
                "write", cmd, arg)

pushAction(w, handler) ==
    traced([w EXCEPT !.conn.responseActions = Append(@, handler)],
           "push", handler, <<>>)

----------------------------------------------------------------------------
(* connect, and the connect phase *)

connect(w) ==
    [w EXCEPT !.socket = [NoSocket EXCEPT !.state = "connecting",
                                          !.layer = IF w.conn.secure THEN "tls" ELSE "plain"],
              !.conn.connectionTimeout = TRUE]

_onConnect(w) ==
    LET cleared == [w EXCEPT !.conn.connectionTimeout = FALSE]
    IN  IF w.conn.destroyed THEN close(cleared)
        ELSE pushAction([cleared EXCEPT !.conn.stage = "connected",
                                        !.socket.listening = TRUE,
                                        !.conn.greetingTimeout = TRUE],
                        PlainHandler("_actionGreeting"))

\* the callback of the greeting timer
greetingTimeoutFired(w) ==
    LET fired == [w EXCEPT !.conn.greetingTimeout = FALSE]
    IN  IF /\ w.socket.state # "none"
           /\ ~w.conn.destroyed
           /\ w.conn.responseActions # <<>>
           /\ w.conn.responseActions[1].action = "_actionGreeting"
        THEN _onError(fired, "ETIMEDOUT", "CONN")
        ELSE fired

\* the callback of the connection timer
connectionTimeoutFired(w) ==
    _onError([w EXCEPT !.conn.connectionTimeout = FALSE], "ETIMEDOUT", "CONN")

\* the upgrade that leaves the 'data' listener on the plaintext socket
_upgradeConnection_keepsListener(w) ==
    [w EXCEPT !.conn.upgrading = TRUE]

_upgradeConnection(w) ==
    [w EXCEPT !.socket.layer = "handshake", !.conn.upgrading = TRUE]

\* the callback of _actionSTARTTLS taking its branch for a connection that was
\* not secured: 'connect' without a new EHLO
tlsConnected_withoutEHLO(w) ==
    emit([w EXCEPT !.conn.secure = TRUE, !.conn.upgrading = FALSE, !.socket.layer = "tls"],
         "connect", "", "")

\* the callback of tls.connect in _upgradeConnection, and from it the callback
\* _actionSTARTTLS passed (called with (null, true))
tlsConnected(w) ==
    LET secured == [w EXCEPT !.conn.secure = TRUE, !.conn.upgrading = FALSE,
                             !.socket.layer = "tls"]
    IN  _sendCommand(pushAction(secured, PlainHandler("_actionEHLO")), "EHLO", <<>>)

_actionGreeting(w, str) ==
    LET cleared == [w EXCEPT !.conn.greetingTimeout = FALSE]
    IN  IF substr03(str) # "220" THEN _onError(cleared, "EPROTOCOL", "CONN")
        ELSE IF w.options.lmtp
             THEN _sendCommand(pushAction(cleared, PlainHandler("_actionLHLO")), "LHLO", <<>>)
             ELSE _sendCommand(pushAction(cleared, PlainHandler("_actionEHLO")), "EHLO", <<>>)

\* /AUTH(?:(\s+|=)[^\n]*\s+|\s+|=)MECH/i.test(str)
hasAuth(str, mech) ==
    \E i \in 1..Len(str) : \E j \in (i + 2)..Len(str) :
        /\ str[i] = "AUTH"
        /\ str[i + 1] \in {" ", "=", "\n"}
        /\ str[j] = mech
        /\ \/ j = i + 2
           \/ /\ str[j - 1] \in {" ", "\n"}
              /\ \A k \in (i + 2)..(j - 2) : str[k] # "\n"

\* Number(tok) || 0
numberOf(tok) ==
    CASE tok = "1" -> 1 [] tok = "2" -> 2 [] tok = "3" -> 3 [] OTHER -> 0

\* str.match(/[ -]SIZE(?:[ \t]+(\d+))?/mi): the place of the first SIZE, 0 if none
sizeMatch(str) ==
    LET places == {i \in 1..(Len(str) - 1) : str[i] \in {" ", "-"} /\ str[i + 1] = "SIZE"}
    IN  IF places = {} THEN 0 ELSE CHOOSE i \in places : \A k \in places : i <= k

\* Number(match[1]) || 0
sizeValue(str, i) ==
    IF Len(str) >= i + 3 /\ str[i + 2] = " " THEN numberOf(str[i + 3]) ELSE 0

pushIf(seq, cond, x) == IF cond THEN Append(seq, x) ELSE seq

\* whether _actionEHLO goes for STARTTLS
wantsSTARTTLS(w, str) ==
    /\ ~w.conn.secure
    /\ ~w.options.ignoreTLS
    /\ (hasKeyword(str, "STARTTLS") \/ w.options.requireTLS)

\* _actionEHLO falling back to HELO whatever requireTLS says
ehloFailureIsFatal_never(w) == FALSE

\* whether _actionEHLO may fall back to HELO
ehloFailureIsFatal(w) == w.options.requireTLS

_actionHELO(w, str) ==
    IF charAt0(str) # "2" THEN _onError(w, "EPROTOCOL", "HELO")
    ELSE emit(w, "connect", "", "")

_actionEHLO(w0, str) ==
    LET w == [w0 EXCEPT !.lastEHLO = str]
    IN  IF substr03(str) = "421" THEN _onError(w, "ECONNECTION", "EHLO")
        ELSE IF charAt0(str) # "2"
        THEN IF ehloFailureIsFatal(w) THEN _onError(w, "ECONNECTION", "EHLO")
             ELSE _sendCommand(pushAction(w, PlainHandler("_actionHELO")), "HELO", <<>>)
        ELSE IF wantsSTARTTLS(w, str)
        THEN pushAction(_sendCommand(w, "STARTTLS", <<>>), PlainHandler("_actionSTARTTLS"))
        ELSE LET ext1 == pushIf(w.conn.supportedExtensions, hasKeyword(str, "SMTPUTF8"), "SMTPUTF8")
                 ext2 == pushIf(ext1, hasKeyword(str, "DSN"), "DSN")
                 ext3 == pushIf(ext2, hasKeyword(str, "8BITMIME"), "8BITMIME")
                 ext4 == pushIf(ext3, hasKeyword(str, "PIPELINING"), "PIPELINING")
                 auth1 == pushIf(w.conn.supportedAuth, hasAuth(str, "PLAIN"), "PLAIN")
                 auth2 == pushIf(auth1, hasAuth(str, "LOGIN"), "LOGIN")
                 auth3 == pushIf(auth2, hasAuth(str, "CRAM-MD5"), "CRAM-MD5")
                 auth4 == pushIf(auth3, hasAuth(str, "XOAUTH2"), "XOAUTH2")
                 m == sizeMatch(str)
             IN  emit([w EXCEPT !.conn.supportedExtensions = pushIf(ext4, m # 0, "SIZE"),
                                !.conn.supportedAuth = auth4,
                                !.conn.maxAllowedSize = IF m # 0 THEN sizeValue(str, m) ELSE @],
                      "connect", "", "")

_actionLHLO(w, str) ==
    IF charAt0(str) # "2" THEN _onError(w, "EPROTOCOL", "LHLO")
    ELSE _actionEHLO(w, str)

\* whether a refused STARTTLS lets the session go on in plaintext
continuesUnencrypted(w) == w.options.opportunisticTLS

_actionSTARTTLS(w, str) ==
    IF charAt0(str) # "2"
    THEN IF continuesUnencrypted(w) THEN emit(w, "connect", "", "")
         ELSE _onError(w, "ETLS", "STARTTLS")
    ELSE _upgradeConnection(w)

----------------------------------------------------------------------------
(* The callbacks of the caller *)

\* what a callback is called with: an error (err is its code, "" for null) or
\* the info object of a send
Failure(err, command) ==
    [err |-> err, command |-> command, accepted |-> <<>>, rejected |-> <<>>,
     rejectedErrors |-> <<>>, hasRejectedErrors |-> FALSE, response |-> <<>>]

\* the response object of _actionRCPT / _actionDATA: it holds the arrays of the
\* envelope themselves, and rejectedErrors only when there are some by then
Info(w, hasRejectedErrors, str) ==
    [err |-> "", command |-> "",
     accepted |-> w.conn.envelope.accepted,
     rejected |-> w.conn.envelope.rejected,
     rejectedErrors |-> IF hasRejectedErrors THEN w.conn.envelope.rejectedErrors ELSE <<>>,
     hasRejectedErrors |-> hasRejectedErrors,
     response |-> str]

\* one call of send(), as the caller sees it
NewSend(envelope, message) ==
    [envelope |-> envelope,     \* the envelope passed, as the caller wrote it
     message |-> message,       \* "" (none), "string" or "stream"
     returned |-> FALSE,        \* the variable returned of send()
     calls |-> <<>>,            \* what callback (the guarded wrapper) was called with
     done |-> <<>>,             \* what the callback done of the caller was called with
     hasRejectedErrors |-> FALSE, \* the info object kept by the closure of send()
     piped |-> FALSE,           \* the message went into the data stream
     watched |-> FALSE,         \* send() put its 'error' listener on the message
     streamErrors |-> 0]        \* 'error' events of the message stream

done(w, id, result) == [w EXCEPT !.user.sends[id].done = Append(@, result)]

\* callback without the variable returned
alreadyReturned_never(w, id) == FALSE

\* the guard of callback in send(): "ensure that callback is only called once"
alreadyReturned(w, id) == w.user.sends[id].returned

callback(w, id, result) ==
    LET called == [w EXCEPT !.user.sends[id].calls = Append(@, result)]
    IN  IF alreadyReturned(w, id) THEN called
        ELSE done([called EXCEPT !.user.sends[id].returned = TRUE], id, result)

----------------------------------------------------------------------------
(* The envelope pipeline *)

hasExtension(w, ext) ==
    \E i \in 1..Len(w.conn.supportedExtensions) : w.conn.supportedExtensions[i] = ext

Whitespace == {" ", "\r", "\n"}

\* str.trim()
RECURSIVE trimLeft(_)
trimLeft(str) ==
    IF str # <<>> /\ Head(str) \in Whitespace THEN trimLeft(Tail(str)) ELSE str

RECURSIVE trimRight(_)
trimRight(str) ==
    IF str # <<>> /\ str[Len(str)] \in Whitespace
    THEN trimRight(SubSeq(str, 1, Len(str) - 1)) ELSE str

trim(str) == trimRight(trimLeft(str))

\* /[\r\n<>]/.test(address)
hasForbidden(address) ==
    \E i \in 1..Len(address) : address[i] \in {"\r", "\n", "<", ">"}

\* the checks of _setEnvelope on the sender and on each recipient
invalidSender(from) == from # <<>> /\ hasForbidden(from)

\* the check of a recipient without the test for forbidden characters
invalidRecipient_emptyOnly(to) == to = <<>>

invalidRecipient(to) == to = <<>> \/ hasForbidden(to)

_createSendStream(w, id) ==
    LET accepted == w.conn.envelope.accepted
    IN  IF w.options.lmtp
        THEN [w EXCEPT !.conn.responseActions =
                  @ \o [i \in 1..Len(accepted) |->
                           Handler("_actionLMTPStream", id, accepted[i], i = Len(accepted))],
                       !.trace =
                  IF w.tracing
                  THEN @ \o [i \in 1..Len(accepted) |->
                                [e |-> "push",
                                 what |-> Handler("_actionLMTPStream", id, accepted[i],
                                                  i = Len(accepted)),
                                 str |-> <<>>]]
                  ELSE @]
        ELSE pushAction(w, Handler("_actionSMTPStream", id, <<>>, FALSE))

\* the callback send() passes to _createSendStream
onStreamResponse(w, id, err, str) ==
    IF err # "" THEN callback(w, id, Failure(err, "DATA"))
    ELSE callback(w, id, Info(w, w.user.sends[id].hasRejectedErrors, str))

\* the callback send() passes to _setEnvelope
onEnvelope(w, id, result) ==
    IF result.err # "" THEN callback(w, id, result)
    ELSE IF w.options.envelopeOnly THEN callback(w, id, result)
    ELSE LET kept == [w EXCEPT !.user.sends[id].hasRejectedErrors = result.hasRejectedErrors,
                               !.user.sends[id].piped = TRUE]
         IN  [_createSendStream(kept, id) EXCEPT
                  !.written = Append(@, [cmd |-> "<message>", arg |-> <<>>])]

\* the RCPT TO of the next recipient written before its handler is pushed
sendNextRCPT_writesFirst(w, id) ==
    LET curRecipient == Head(w.conn.envelope.rcptQueue)
        moved == [w EXCEPT !.conn.envelope.rcptQueue = Tail(@),
                           !.conn.recipientQueue = Append(@, curRecipient)]
    IN  pushAction(_sendCommand(moved, "RCPT TO", curRecipient),
                   Handler("_actionRCPT", id, <<>>, FALSE))

\* the RCPT TO of the next recipient of rcptQueue, its handler pushed first
sendNextRCPT(w, id) ==
    LET curRecipient == Head(w.conn.envelope.rcptQueue)
        moved == [w EXCEPT !.conn.envelope.rcptQueue = Tail(@),
                           !.conn.recipientQueue = Append(@, curRecipient)]
    IN  _sendCommand(pushAction(moved, Handler("_actionRCPT", id, <<>>, FALSE)),
                     "RCPT TO", curRecipient)

\* while (this._envelope.rcptQueue.length) { ... }
RECURSIVE sendAllRCPT(_, _)
sendAllRCPT(w, id) ==
    IF w.conn.envelope.rcptQueue = <<>> THEN w
    ELSE sendAllRCPT(sendNextRCPT(w, id), id)

_actionMAIL(w, id, str) ==
    IF charAt0(str) # "2" THEN onEnvelope(w, id, Failure("EENVELOPE", "MAIL FROM"))
    ELSE IF w.conn.envelope.rcptQueue = <<>>
    THEN onEnvelope(w, id, Failure("EENVELOPE", "API"))
    ELSE LET fresh == [w EXCEPT !.conn.recipientQueue = <<>>]
         IN  IF hasExtension(w, "PIPELINING") THEN sendAllRCPT(fresh, id)
             ELSE sendNextRCPT(fresh, id)

\* _actionRCPT going on to DATA whatever the recipients' fate
someAccepted_always(w) == TRUE

\* whether _actionRCPT goes on to DATA: some recipient was not rejected
someAccepted(w) == Len(w.conn.envelope.rejected) < Len(w.conn.envelope.to)

\* the test of _actionRCPT without the recipients still awaiting their response
noRecipientLeft_unsentOnly(w) == w.conn.envelope.rcptQueue = <<>>

\* whether _actionRCPT has seen the response to the last RCPT TO
noRecipientLeft(w) == w.conn.envelope.rcptQueue = <<>> /\ w.conn.recipientQueue = <<>>

\* _actionRCPT keeping a refused recipient among the accepted ones as well
recordRecipient_rejectedToo(w, curRecipient, str) ==
    IF charAt0(str) # "2"
    THEN [w EXCEPT
              !.conn.envelope.accepted = Append(@, curRecipient),
              !.conn.envelope.rejected = Append(@, curRecipient),
              !.conn.envelope.rejectedErrors =
                  Append(@, [recipient |-> curRecipient, err |-> "EENVELOPE",
                             command |-> "RCPT TO"])]
    ELSE [w EXCEPT !.conn.envelope.accepted = Append(@, curRecipient)]

\* _actionRCPT forgetting the recipients the server refused
recordRecipient_acceptedOnly(w, curRecipient, str) ==
    IF charAt0(str) # "2" THEN w
    ELSE [w EXCEPT !.conn.envelope.accepted = Append(@, curRecipient)]

\* the first half of _actionRCPT: the recipient goes to rejected or to accepted
recordRecipient(w, curRecipient, str) ==
    IF charAt0(str) # "2"
    THEN [w EXCEPT
              !.conn.envelope.rejected = Append(@, curRecipient),
              !.conn.envelope.rejectedErrors =
                  Append(@, [recipient |-> curRecipient, err |-> "EENVELOPE",
                             command |-> "RCPT TO"])]
    ELSE [w EXCEPT !.conn.envelope.accepted = Append(@, curRecipient)]

_actionRCPT(w, id, str) ==
    LET curRecipient == IF w.conn.recipientQueue = <<>> THEN <<"undefined">>
                        ELSE Head(w.conn.recipientQueue)
        shifted == [w EXCEPT !.conn.recipientQueue = IF @ = <<>> THEN @ ELSE Tail(@)]
        counted == recordRecipient(shifted, curRecipient, str)
        env == counted.conn.envelope
    IN  IF noRecipientLeft(counted)
        THEN IF someAccepted(counted)
             THEN IF counted.options.envelopeOnly
                  THEN onEnvelope(counted, id, Info(counted, env.rejectedErrors # <<>>, <<>>))
                  ELSE _sendCommand(pushAction(counted, Handler("_actionDATA", id, <<>>, FALSE)),
                                    "DATA", <<>>)
             ELSE onEnvelope(counted, id,
                      [Failure("EENVELOPE", "RCPT TO") EXCEPT
                           !.rejected = env.rejected,
                           !.rejectedErrors = env.rejectedErrors,
                           !.hasRejectedErrors = TRUE])
        ELSE IF env.rcptQueue # <<>> THEN sendNextRCPT(counted, id)
        ELSE counted

_actionDATA(w, id, str) ==
    IF charAt0(str) \notin {"2", "3"} THEN onEnvelope(w, id, Failure("EENVELOPE", "DATA"))
    ELSE onEnvelope(w, id, Info(w, w.conn.envelope.rejectedErrors # <<>>, <<>>))

\* the handler of the response to the message that never calls back
_actionSMTPStream_silent(w, id, str) == w

_actionSMTPStream(w, id, str) ==
    IF charAt0(str) # "2" THEN onStreamResponse(w, id, "EMESSAGE", str)
    ELSE onStreamResponse(w, id, "", str)

\* the loop of _actionLMTPStream that takes recipient out of accepted: the
\* indices run over the length the array had at the start
RECURSIVE spliceRecipient(_, _, _, _)
spliceRecipient(accepted, recipient, i, len) ==
    IF i > len THEN accepted
    ELSE IF i <= Len(accepted) /\ accepted[i] = recipient
         THEN spliceRecipient(SubSeq(accepted, 1, i - 1) \o SubSeq(accepted, i + 1, Len(accepted)),
                              recipient, i + 1, len)
         ELSE spliceRecipient(accepted, recipient, i + 1, len)

_actionLMTPStream(w, id, recipient, final, str) ==
    LET failed ==
            IF charAt0(str) # "2"
            THEN [w EXCEPT
                      !.conn.envelope.rejected = Append(@, recipient),
                      !.conn.envelope.rejectedErrors =
                          Append(@, [recipient |-> recipient, err |-> "EMESSAGE",
                                     command |-> "DATA"]),
                      !.conn.envelope.accepted =
                          spliceRecipient(@, recipient, 1, Len(@))]
            ELSE w
    IN  IF final THEN onStreamResponse(failed, id, "", str) ELSE failed

_setEnvelope(w, id, envelope) ==
    LET from == trim(envelope.from)
        to == [i \in 1..Len(envelope.to) |-> trim(envelope.to[i])]
        assigned == [w EXCEPT !.conn.envelope =
                         [NoEnvelope EXCEPT !.set = TRUE, !.from = from, !.to = to,
                                            !.size = envelope.size]]
        args == IF envelope.size # 0 /\ hasExtension(w, "SIZE") THEN <<"SIZE=">> ELSE <<>>
    IN  IF to = <<>> THEN onEnvelope(assigned, id, Failure("EENVELOPE", "API"))
        ELSE IF invalidSender(from) THEN onEnvelope(assigned, id, Failure("EENVELOPE", "API"))
        ELSE IF \E i \in 1..Len(to) : invalidRecipient(to[i])
        THEN onEnvelope(assigned, id, Failure("EENVELOPE", "API"))
        ELSE _sendCommand(
                 pushAction([assigned EXCEPT !.conn.envelope.rcptQueue = to],
                            Handler("_actionMAIL", id, <<>>, FALSE)),
                 "MAIL FROM", from \o args)

\* the size check of send(): "reject larger messages than allowed"
tooLarge(w, envelope) ==
    w.conn.maxAllowedSize # 0 /\ envelope.size > w.conn.maxAllowedSize

DoneTask(id) == [task |-> "done", cb |-> id]

\* send(envelope, message, done); id is the place of the call in user.sends
send(w, id, envelope, message) ==
    IF message = "" THEN done(w, id, Failure("EMESSAGE", "API"))
    ELSE IF tooLarge(w, envelope)
    THEN [w EXCEPT !.immediates = Append(@, DoneTask(id))]
    ELSE _setEnvelope([w EXCEPT !.user.sends[id].watched = (message = "stream")],
                      id, envelope)

\* the callback send() defers with setImmediate when the message is too large
sendTooLarge(w, id) == done(w, id, Failure("EMESSAGE", "MAIL FROM"))

\* the 'error' listener send() puts on a message that is a stream
onMessageError(w, id) == callback(w, id, Failure("ESTREAM", "API"))

\* the handler reset() pushes; its callback is the id-th of user.resets
resetDone(w, id, result) == [w EXCEPT !.user.resets[id] = Append(@, result)]

\* the handler of reset() clearing the envelope whatever the response
_actionRSET_clearsAlways(w, id, str) ==
    resetDone([w EXCEPT !.conn.envelope = NoEnvelope], id,
              IF charAt0(str) # "2" THEN "EPROTOCOL" ELSE "")

_actionRSET(w, id, str) ==
    IF charAt0(str) # "2" THEN resetDone(w, id, "EPROTOCOL")
    ELSE resetDone([w EXCEPT !.conn.envelope = NoEnvelope], id, "")

reset(w, id) ==
    pushAction(_sendCommand(w, "RSET", <<>>), Handler("_actionRSET", id, <<>>, FALSE))

----------------------------------------------------------------------------
(* login and the handlers of authentication *)

\* one call of login(), as the caller and its token provider see it
NewLogin(auth) ==
    [auth |-> auth,          \* the credentials passed
     calls |-> <<>>,         \* what the callback was called with
     getToken |-> 0,         \* the calls of xoauth2.getToken
     generateToken |-> 0,    \* the calls of xoauth2.generateToken
     pending |-> "",         \* the method of the provider whose callback is awaited
     retryTimer |-> FALSE,   \* the setTimeout of _actionAUTHComplete is running
     tokenFailed |-> FALSE]  \* the provider called back with an error

\* callback(err) or callback(null, true) of a login: err is "" for success
loginCallback(w, id, err, command) ==
    [w EXCEPT !.user.logins[id].calls = Append(@, [err |-> err, command |-> command])]

\* method.toUpperCase().trim()
toUpperCase(method) ==
    CASE method = "login" -> "LOGIN"
      [] method = " ntlm" -> "NTLM"
      [] OTHER -> method

\* this._supportedAuth.indexOf(mech) >= 0
supportsAuth(w, mech) ==
    \E i \in 1..Len(w.conn.supportedAuth) : w.conn.supportedAuth[i] = mech

\* login() going for PLAIN whatever the server advertised
authMethodFor_plainFirst(w, auth) ==
    IF w.options.authMethod # "" THEN toUpperCase(w.options.authMethod)
    ELSE IF auth.xoauth2 # "" /\ supportsAuth(w, "XOAUTH2") THEN "XOAUTH2"
    ELSE "PLAIN"

\* the choice of this._authMethod in login()
authMethodFor(w, auth) ==
    IF w.options.authMethod # "" THEN toUpperCase(w.options.authMethod)
    ELSE IF auth.xoauth2 # "" /\ supportsAuth(w, "XOAUTH2") THEN "XOAUTH2"
    ELSE IF auth.domain /\ supportsAuth(w, "NTLM") THEN "NTLM"
    ELSE IF w.conn.supportedAuth # <<>> THEN toUpperCase(w.conn.supportedAuth[1])
    ELSE "PLAIN"

\* a handler of the login id; isRetry matters to _actionAUTHComplete only
AuthHandler(action, id, isRetry) == Handler(action, id, <<>>, isRetry)

\* this._auth.xoauth2 && typeof this._auth.xoauth2 === 'object'
hasTokenProvider(w) == w.conn.auth.xoauth2 = "provider"

_handleXOauth2Token(w, id, isRetry) ==
    LET pushed == pushAction(w, AuthHandler("_actionAUTHComplete", id, isRetry))
    IN  IF hasTokenProvider(w)
        THEN IF isRetry
             THEN [pushed EXCEPT !.user.logins[id].pending = "generateToken",
                                 !.user.logins[id].generateToken = @ + 1]
             ELSE [pushed EXCEPT !.user.logins[id].pending = "getToken",
                                 !.user.logins[id].getToken = @ + 1]
        ELSE _sendCommand(pushed, "AUTH XOAUTH2", <<>>)

\* the callback _handleXOauth2Token passes to getToken / generateToken
onToken(w, id, err) ==
    LET got == [w EXCEPT !.user.logins[id].pending = ""]
    IN  IF err
        THEN loginCallback([got EXCEPT !.user.logins[id].tokenFailed = TRUE],
                           id, "EAUTH", "AUTH XOAUTH2")
        ELSE _sendCommand(got, "AUTH XOAUTH2", <<>>)

login(w, id, auth) ==
    LET method == authMethodFor(w, auth)
        set == [w EXCEPT !.conn.auth = auth, !.conn.authMethod = method]
    IN  CASE method = "XOAUTH2" -> _handleXOauth2Token(set, id, FALSE)
          [] method = "LOGIN" ->
                 _sendCommand(pushAction(set, AuthHandler("_actionAuthLoginUser", id, FALSE)),
                              "AUTH LOGIN", <<>>)
          [] method = "PLAIN" ->
                 _sendCommand(pushAction(set, AuthHandler("_actionAUTHComplete", id, FALSE)),
                              "AUTH PLAIN", <<>>)
          [] method = "CRAM-MD5" ->
                 _sendCommand(pushAction(set, AuthHandler("_actionAuthCramMd5", id, FALSE)),
                              "AUTH CRAM-MD5", <<>>)
          [] method = "NTLM" ->
                 _sendCommand(pushAction(set, AuthHandler("_actionAuthNtlmType1", id, FALSE)),
                              "AUTH NTLM", <<"type1">>)
          [] OTHER -> loginCallback(set, id, "EAUTH", "API")

\* str.match(/^334\s+(.+)$/)
isChallenge(str) ==
    /\ Len(str) >= 3
    /\ str[1] = "334"
    /\ str[2] = " "
    /\ \A k \in 3..Len(str) : str[k] # "\n"

\* str.match(/^235\s+/)
is235(str) == Len(str) >= 2 /\ str[1] = "235" /\ str[2] \in Whitespace

\* ntlm.parseType2Message(challengeString, callback) returns the message, or
\* calls callback with an error and returns nothing
isType2Message(str) == str[3] = "TlRMTVNTUAAC"

_actionAuthLoginUser(w, id, str) ==
    IF str # <<"334", " ", "VXNlcm5hbWU6">> THEN loginCallback(w, id, "EAUTH", "AUTH LOGIN")
    ELSE _sendCommand(pushAction(w, AuthHandler("_actionAuthLoginPass", id, FALSE)),
                      "<user>", <<>>)

_actionAuthNtlmType1(w, id, str) ==
    IF ~isChallenge(str) THEN loginCallback(w, id, "EAUTH", "AUTH NTLM")
    ELSE IF ~isType2Message(str) THEN loginCallback(w, id, "Error", "")
    ELSE _sendCommand(pushAction(w, AuthHandler("_actionAuthNtlmType3", id, FALSE)),
                      "<type3>", <<>>)

_actionAuthCramMd5(w, id, str) ==
    IF ~isChallenge(str) THEN loginCallback(w, id, "EAUTH", "AUTH CRAM-MD5")
    ELSE _sendCommand(pushAction(w, AuthHandler("_actionAuthCramMd5Pass", id, FALSE)),
                      "<hmac>", <<>>)

_actionAuthCramMd5Pass(w, id, str) ==
    IF ~is235(str) THEN loginCallback(w, id, "EAUTH", "AUTH CRAM-MD5")
    ELSE loginCallback([w EXCEPT !.conn.authenticated = TRUE], id, "", "")

_actionAuthNtlmType3(w, id, str) ==
    IF ~is235(str) THEN loginCallback(w, id, "EAUTH", "AUTH NTLM")
    ELSE loginCallback([w EXCEPT !.conn.authenticated = TRUE], id, "", "")

_actionAuthLoginPass(w, id, str) ==
    IF str # <<"334", " ", "UGFzc3dvcmQ6">> THEN loginCallback(w, id, "EAUTH", "AUTH LOGIN")
    ELSE _sendCommand(pushAction(w, AuthHandler("_actionAUTHComplete", id, FALSE)),
                      "<pass>", <<>>)

_actionAUTHComplete(w, id, isRetry, str) ==
    IF substr03(str) = "334"
    THEN _sendCommand(pushAction(w, AuthHandler("authContinued", id, isRetry)), "", <<>>)
    ELSE IF charAt0(str) # "2"
    THEN loginCallback(w, id, "EAUTH", "AUTH " \o w.conn.authMethod)
    ELSE loginCallback([w EXCEPT !.conn.authenticated = TRUE], id, "", "")

\* that handler asking for a new token after every failed attempt
authContinued_retriesAgain(w, id, isRetry, str) ==
    IF ~hasTokenProvider(w) THEN _actionAUTHComplete(w, id, TRUE, str)
    ELSE [w EXCEPT !.user.logins[id].retryTimer = TRUE]

\* the handler _actionAUTHComplete pushes after a 334: the response to the empty
\* line completes the login, or has a token provider asked for a new token
authContinued(w, id, isRetry, str) ==
    IF isRetry \/ ~hasTokenProvider(w) THEN _actionAUTHComplete(w, id, TRUE, str)
    ELSE [w EXCEPT !.user.logins[id].retryTimer = TRUE]

\* the callback of the setTimeout of that handler
retryTimerFired(w, id) ==
    _handleXOauth2Token([w EXCEPT !.user.logins[id].retryTimer = FALSE], id, TRUE)

----------------------------------------------------------------------------
(* The framer and the dispatcher *)

\* the handler `action` called with the response str
runAction(w, action, str) ==
    CASE action.action = "_actionGreeting" -> _actionGreeting(w, str)
      [] action.action = "_actionEHLO" -> _actionEHLO(w, str)
      [] action.action = "_actionLHLO" -> _actionLHLO(w, str)
      [] action.action = "_actionHELO" -> _actionHELO(w, str)
      [] action.action = "_actionSTARTTLS" -> _actionSTARTTLS(w, str)
      [] action.action = "close" -> close(w)
      [] action.action = "_actionMAIL" -> _actionMAIL(w, action.cb, str)
      [] action.action = "_actionRCPT" -> _actionRCPT(w, action.cb, str)
      [] action.action = "_actionDATA" -> _actionDATA(w, action.cb, str)
      [] action.action = "_actionSMTPStream" -> _actionSMTPStream(w, action.cb, str)
      [] action.action = "_actionLMTPStream" ->
             _actionLMTPStream(w, action.cb, action.recipient, action.final, str)
      [] action.action = "_actionRSET" -> _actionRSET(w, action.cb, str)
      [] action.action = "_actionAuthLoginUser" -> _actionAuthLoginUser(w, action.cb, str)
      [] action.action = "_actionAuthLoginPass" -> _actionAuthLoginPass(w, action.cb, str)
      [] action.action = "_actionAuthCramMd5" -> _actionAuthCramMd5(w, action.cb, str)
      [] action.action = "_actionAuthCramMd5Pass" -> _actionAuthCramMd5Pass(w, action.cb, str)
      [] action.action = "_actionAuthNtlmType1" -> _actionAuthNtlmType1(w, action.cb, str)
      [] action.action = "_actionAuthNtlmType3" -> _actionAuthNtlmType3(w, action.cb, str)
      [] action.action = "_actionAUTHComplete" ->
             _actionAUTHComplete(w, action.cb, action.final, str)
      [] action.action = "authContinued" -> authContinued(w, action.cb, action.final, str)

setImmediate(w, task) == [w EXCEPT !.immediates = Append(@, task)]

ProcessTask == [task |-> "_processResponse", cb |-> 0]

\* _processResponse taking the handler pushed last
_processResponse_lastHandler(w) ==
    IF w.conn.responseQueue = <<>> THEN w
    ELSE LET str == Head(w.conn.responseQueue)
             shifted == [w EXCEPT !.conn.responseQueue = Tail(@)]
             skipped == IF isBlank(str) THEN setImmediate(shifted, ProcessTask) ELSE shifted
             actions == skipped.conn.responseActions
         IN  IF isContinuation(lastLineOf(str)) THEN shifted
             ELSE IF actions # <<>>
             THEN setImmediate(
                      runAction(traced([skipped EXCEPT !.conn.responseActions =
                                                          SubSeq(@, 1, Len(@) - 1)],
                                       "call", actions[Len(actions)], str),
                                actions[Len(actions)], str),
                      ProcessTask)
             ELSE _onError(skipped, "EPROTOCOL", "CONN")

\* _processResponse dropping a response that no handler waits for
_processResponse_dropsUnexpected(w) ==
    IF w.conn.responseQueue = <<>> THEN w
    ELSE LET str == Head(w.conn.responseQueue)
             shifted == [w EXCEPT !.conn.responseQueue = Tail(@)]
             skipped == IF isBlank(str) THEN setImmediate(shifted, ProcessTask) ELSE shifted
         IN  IF isContinuation(lastLineOf(str)) THEN shifted
             ELSE IF skipped.conn.responseActions # <<>>
             THEN setImmediate(
                      runAction(traced([skipped EXCEPT !.conn.responseActions = Tail(@)],
                                       "call", Head(skipped.conn.responseActions), str),
                                Head(skipped.conn.responseActions), str),
                      ProcessTask)
             ELSE skipped

_processResponse(w) ==
    IF w.conn.responseQueue = <<>> THEN w
    ELSE LET str == Head(w.conn.responseQueue)
             shifted == [w EXCEPT !.conn.responseQueue = Tail(@)]
             skipped == IF isBlank(str) THEN setImmediate(shifted, ProcessTask) ELSE shifted
         IN  IF isContinuation(lastLineOf(str)) THEN shifted
             ELSE IF skipped.conn.responseActions # <<>>
             THEN setImmediate(
                      runAction(traced([skipped EXCEPT !.conn.responseActions = Tail(@)],
                                       "call", Head(skipped.conn.responseActions), str),
                                Head(skipped.conn.responseActions), str),
                      ProcessTask)
             ELSE _onError(skipped, "EPROTOCOL", "CONN")

\* the loop of _onData over the complete lines
RECURSIVE queueLines(_, _)
queueLines(queue, lines) ==
    IF lines = <<>> THEN queue
    ELSE IF queue # <<>> /\ isContinuation(lastLineOf(queue[Len(queue)]))
         THEN queueLines([queue EXCEPT ![Len(queue)] = @ \o <<"\n">> \o Head(lines)],
                         Tail(lines))
         ELSE queueLines(Append(queue, Head(lines)), Tail(lines))

_onData(w, chunk) ==
    IF w.conn.destroyed \/ chunk = <<>> THEN w
    ELSE LET lines == splitLines(w.conn.remainder \o chunk, <<>>)
         IN  _processResponse(
                 [w EXCEPT !.conn.remainder = lines[Len(lines)],
                           !.conn.responseQueue =
                               queueLines(@, SubSeq(lines, 1, Len(lines) - 1))])

----------------------------------------------------------------------------
(* The caller *)

quit(w) == pushAction(_sendCommand(w, "QUIT", <<>>), PlainHandler("close"))

NewUser == [quit |-> FALSE, sends |-> <<>>, resets |-> <<>>, logins |-> <<>>]

\* the 'connect' event was emitted
connected == \E i \in 1..Len(emitted) : emitted[i].event = "connect"

\* no command is waiting for its response: the handler queue is empty, or holds
\* only handlers _handleXOauth2Token pushed for a command that was never
\* written, because the token provider failed
noResponseAwaited ==
    \A k \in 1..Len(conn.responseActions) :
        /\ conn.responseActions[k].action = "_actionAUTHComplete"
        /\ user.logins[conn.responseActions[k].cb].tokenFailed

\* The caller starts an operation on a connection that is connected, not ended,
\* not quit, and idle: the callbacks of its earlier operations were called and no
\* response is outstanding (no concurrent invocations of public operations).
UserReady ==
    /\ connected
    /\ ~conn.destroyed
    /\ ~user.quit
    /\ noResponseAwaited
    /\ \A i \in 1..Len(user.sends) : user.sends[i].done # <<>>
    /\ \A i \in 1..Len(user.resets) : user.resets[i] # <<>>
    /\ \A i \in 1..Len(user.logins) : user.logins[i].calls # <<>>

----------------------------------------------------------------------------
(* What the server sends, and what the caller passes *)

Reply(code) == <<code, "\n">>
MultiLine(code, kw) == <<code, "-", kw, "\n", code, "\n">>
SizeReply == <<"250", " ", "SIZE", " ", "1", "\n">>
StartTlsAndSize == <<"250", "-", "STARTTLS", "\n", "250", " ", "SIZE", " ", "1", "\n">>

\* the responses of a server during the connect phase
ConnectReplies ==
    {Reply("220"), Reply("250"), MultiLine("250", "STARTTLS"), Reply("421"), Reply("502")}

\* the responses of a server to a session that sends mail
SendReplies ==
    {Reply("220"), Reply("354"), Reply("550"), MultiLine("250", "PIPELINING")}

countLines(chunk) == Cardinality({i \in 1..Len(chunk) : chunk[i] = "\n"})

\* the concatenations of up to n of the responses rs
RECURSIVE Batches(_, _)
Batches(rs, n) ==
    IF n = 0 THEN {<<>>}
    ELSE LET shorter == Batches(rs, n - 1)
         IN  shorter \cup {b \o r : b \in shorter, r \in rs}

\* the chunks a socket delivers: whole responses, MaxPending lines at most
Chunks(rs) == {c \in Batches(rs, MaxPending) : c # <<>> /\ countLines(c) <= MaxPending}

\* addresses: "a" and "b" stand for the characters of an address
Senders == {<<"s">>, <<"s", ">">>}
Recipients == {<<"a">>, <<"b", "\n">>, <<"a", "<">>}

RECURSIVE SeqsUpTo(_, _)
SeqsUpTo(S, n) ==
    IF n = 0 THEN {<<>>}
    ELSE LET shorter == SeqsUpTo(S, n - 1)
         IN  shorter \cup {Append(q, x) : q \in shorter, x \in S}

\* envelope.size: 0 stands for no size
Envelopes == [from : Senders, to : SeqsUpTo(Recipients, MaxRcpt), size : {0}]

Messages == {"", "string", "stream"}

\* the responses of a server to a session that logs in: an EHLO response with
\* an AUTH line, the prompts of AUTH LOGIN, an NTLM challenge, and the verdicts
AuthReply == <<"250", " ", "AUTH", " ", "LOGIN", " ", "PLAIN", " ", "XOAUTH2", "\n">>
UserPrompt == <<"334", " ", "VXNlcm5hbWU6", "\n">>
PassPrompt == <<"334", " ", "UGFzc3dvcmQ6", "\n">>
Type2Challenge == <<"334", " ", "TlRMTVNTUAAC", "\n">>
Authenticated == <<"235", " ", "ok", "\n">>
NtlmReply == <<"250", " ", "AUTH", " ", "NTLM", " ", "CRAM-MD5", "\n">>
LoginReplies ==
    {Reply("220"), AuthReply, NtlmReply, UserPrompt, PassPrompt, Type2Challenge,
     Authenticated, Reply("550")}

\* the credentials passed to login()
Credentials == [xoauth2 : {"", "string", "provider"}, domain : {TRUE, FALSE}]

----------------------------------------------------------------------------
(* The state machine *)

\* the world after the step, computed once, becomes the state
Step(w) ==
    \E v \in {w} :
        /\ options' = v.options
        /\ conn' = v.conn
        /\ socket' = v.socket
        /\ emitted' = v.emitted
        /\ written' = v.written
        /\ immediates' = v.immediates
        /\ user' = v.user
        /\ lastEHLO' = v.lastEHLO
        /\ tracing' = v.tracing
        /\ trace' = v.trace

Booleans == {TRUE, FALSE}

\* the configurations of the connect phase
ConnectOptions ==
    [secure : Booleans, ignoreTLS : Booleans, requireTLS : Booleans,
     opportunisticTLS : Booleans, lmtp : Booleans, envelopeOnly : {FALSE}, authMethod : {""}]

\* the configurations of the sessions that send mail: over implicit TLS, so that
\* there is no STARTTLS and no upgrade of the connection
SendOptions ==
    [secure : {TRUE}, ignoreTLS : {FALSE}, requireTLS : {FALSE},
     opportunisticTLS : {FALSE}, lmtp : Booleans, envelopeOnly : Booleans, authMethod : {""}]

InitWith(opts) ==
    /\ options = opts
    /\ conn = NewConnection(opts)
    /\ socket = NoSocket
    /\ emitted = <<>>
    /\ written = <<>>
    /\ immediates = <<>>
    /\ user = NewUser
    /\ lastEHLO = <<>>
    /\ tracing = FALSE
    /\ trace = <<>>

Init == \E opts \in ConnectOptions : InitWith(opts)

InitSend == \E opts \in SendOptions : InitWith(opts)

\* the caller calls connect()
Connect ==
    /\ socket.state = "none"
    /\ Step(connect(World))

\* the transport is connected: the callback of net.connect / tls.connect
SocketConnect ==
    /\ socket.state = "connecting"
    /\ Step(_onConnect([World EXCEPT !.socket.state = "open"]))

ConnectionTimeout ==
    /\ conn.connectionTimeout
    /\ Step(connectionTimeoutFired(World))

GreetingTimeout ==
    /\ conn.greetingTimeout
    /\ Step(greetingTimeoutFired(World))

\* the socket has data: the 'data' listener is on the plaintext socket from
\* _onConnect until _upgradeConnection, and on the TLS socket once it is connected
canReceive ==
    /\ socket.state = "open"
    /\ socket.listening
    /\ socket.layer # "handshake"
    /\ ~socket.peerEnded

SocketData(chunk) ==
    /\ canReceive
    /\ Len(conn.responseQueue) + countLines(chunk) <= MaxPending
    /\ Len(immediates) < MaxImmediates
    /\ Step(_onData(World, chunk))

\* the next callback scheduled with setImmediate runs
RunImmediate ==
    /\ immediates # <<>>
    /\ LET task == Head(immediates)
           w == [World EXCEPT !.immediates = Tail(@)]
       IN  Step(IF task.task = "_processResponse" THEN _processResponse(w)
                ELSE sendTooLarge(w, task.cb))

\* the 'error' event of the socket: the listener of connect() on the socket it
\* opened, or the one _upgradeConnection put on the TLS socket (no error type)
SocketError ==
    /\ socket.state \in {"connecting", "open"}
    /\ \E fromTls \in {socket.layer = "handshake" \/ conn.upgrading, FALSE} :
          LET broken == [World EXCEPT !.socket.destroyed = TRUE,
                                      !.socket.state = IF socket.listening THEN "closing"
                                                       ELSE "closed"]
          IN  Step(IF fromTls THEN _onError(broken, "", "")
                   ELSE _onError(broken, "ECONNECTION", "CONN"))

\* the 'end' event of the socket: the peer closed its side
SocketEnd ==
    /\ socket.state = "open"
    /\ socket.listening
    /\ ~socket.peerEnded
    /\ Step(_onEnd([World EXCEPT !.socket.peerEnded = TRUE]))

\* the 'close' event of the socket
SocketClose ==
    /\ socket.state \in {"open", "closing"}
    /\ socket.listening
    /\ Step(_onClose([World EXCEPT !.socket.state = "closed", !.socket.destroyed = TRUE]))

\* the 'timeout' event of the socket
SocketTimeout ==
    /\ socket.state = "open"
    /\ socket.listening
    /\ Step(_onTimeout(World))

\* the TLS handshake started by _upgradeConnection completes: it takes round
\* trips on the network, so the callbacks scheduled with setImmediate ran before
TlsConnect ==
    /\ socket.state = "open"
    /\ socket.layer = "handshake"
    /\ immediates = <<>>
    /\ Step(tlsConnected(World))

\* the caller calls close()
Close == Step(close(World))

\* the caller calls quit()
Quit ==
    /\ UserReady
    /\ Step(quit([World EXCEPT !.user.quit = TRUE]))

\* the caller calls send(envelope, message, done)
Send(envelope, message) ==
    /\ UserReady
    /\ Len(user.sends) < MaxSends
    /\ Step(send([World EXCEPT !.user.sends = Append(@, NewSend(envelope, message))],
                 Len(user.sends) + 1, envelope, message))

\* the message stream of the id-th send emits 'error'
MessageError(id) ==
    /\ user.sends[id].watched
    /\ user.sends[id].streamErrors < MaxStreamErrors
    /\ Step(onMessageError([World EXCEPT !.user.sends[id].streamErrors = @ + 1], id))

\* the caller calls reset(callback)
Reset ==
    /\ UserReady
    /\ Len(user.resets) < MaxResets
    /\ Step(reset([World EXCEPT !.user.resets = Append(@, <<>>)], Len(user.resets) + 1))

\* the caller calls login(auth, callback)
Login(auth) ==
    /\ UserReady
    /\ Len(user.logins) < MaxLogins
    /\ Step(login([World EXCEPT !.user.logins = Append(@, NewLogin(auth))],
                  Len(user.logins) + 1, auth))

\* the token provider calls back, with an error or with a token
TokenReady(id, err) ==
    /\ user.logins[id].pending # ""
    /\ Step(onToken(World, id, err))

\* the timer set before the second attempt of XOAUTH2 fires
RetryTimer(id) ==
    /\ user.logins[id].retryTimer
    /\ Step(retryTimerFired(World, id))

Next ==
    \/ Connect
    \/ SocketConnect
    \/ ConnectionTimeout
    \/ GreetingTimeout
    \/ \E chunk \in Chunks(ConnectReplies) : SocketData(chunk)
    \/ RunImmediate
    \/ SocketError
    \/ SocketEnd
    \/ SocketClose
    \/ SocketTimeout
    \/ TlsConnect
    \/ Close
    \/ Quit

Spec == Init /\ [][Next]_vars

NextSend ==
    \/ Connect
    \/ SocketConnect
    \/ ConnectionTimeout
    \/ GreetingTimeout
    \/ \E chunk \in Chunks(SendReplies) : SocketData(chunk)
    \/ RunImmediate
    \/ SocketError
    \/ SocketEnd
    \/ SocketClose
    \/ SocketTimeout
    \/ Close
    \/ Quit
    \/ \E envelope \in Envelopes, message \in Messages : Send(envelope, message)
    \/ \E id \in 1..Len(user.sends) : MessageError(id)

SpecSend == InitSend /\ [][NextSend]_vars

\* the configurations of the sessions of a server that limits the message size
SizeOptions ==
    [secure : {FALSE}, ignoreTLS : {FALSE}, requireTLS : {FALSE},
     opportunisticTLS : Booleans, lmtp : {FALSE}, envelopeOnly : {FALSE}, authMethod : {""}]

\* the responses of such a server
SizeReplies == {Reply("220"), Reply("502"), SizeReply, StartTlsAndSize}

\* the envelopes sent to it: one recipient, no size or a size over the limit
SizedEnvelopes == [from : {<<"s">>}, to : {<<<<"a">>>>}, size : {0, 2}]

InitSize == \E opts \in SizeOptions : InitWith(opts)

NextSize ==
    \/ Connect
    \/ SocketConnect
    \/ ConnectionTimeout
    \/ GreetingTimeout
    \/ \E chunk \in Chunks(SizeReplies) : SocketData(chunk)
    \/ RunImmediate
    \/ SocketError
    \/ SocketEnd
    \/ SocketClose
    \/ SocketTimeout
    \/ TlsConnect
    \/ Close
    \/ \E envelope \in SizedEnvelopes : Send(envelope, "string")
    \/ Reset

SpecSize == InitSize /\ [][NextSize]_vars

\* the lines written in answer to a 334 of the server
challengesAnswered ==
    Cardinality({k \in 1..Len(written) :
                     written[k].cmd \in {"", "<user>", "<pass>", "<hmac>", "<type3>"}})

\* the server of a session that logs in sends one response at a time, and
\* MaxChallenges responses 334 at most
ServerReply(reply) ==
    /\ reply[1] = "334" => challengesAnswered < MaxChallenges
    /\ SocketData(reply)

\* the sessions that log in: over implicit TLS, with or without an override of
\* the authentication method
LoginOptions ==
    [secure : {TRUE}, ignoreTLS : {FALSE}, requireTLS : {FALSE},
     opportunisticTLS : {FALSE}, lmtp : {FALSE}, envelopeOnly : {FALSE},
     authMethod : {"", "login", "CRAM-MD5", " ntlm", "DIGEST-MD5"}]

InitLogin == \E opts \in LoginOptions : InitWith(opts)

NextLogin ==
    \/ Connect
    \/ SocketConnect
    \/ \E reply \in LoginReplies : ServerReply(reply)
    \/ RunImmediate
    \/ Close
    \/ \E auth \in Credentials : Login(auth)
    \/ \E id \in 1..Len(user.logins) : \E err \in Booleans : TokenReady(id, err)
    \/ \E id \in 1..Len(user.logins) : RetryTimer(id)
    \/ Reset
    \/ Quit

SpecLogin == InitLogin /\ [][NextLogin]_vars

\* a session that keeps the history of its steps
InitTraced(opts) ==
    /\ options = opts
    /\ conn = NewConnection(opts)
    /\ socket = NoSocket
    /\ emitted = <<>>
    /\ written = <<>>
    /\ immediates = <<>>
    /\ user = NewUser
    /\ lastEHLO = <<>>
    /\ tracing = TRUE
    /\ trace = <<>>

\* the server writes a response: its bytes are on their way
ServerSends(reply) ==
    /\ canReceive
    /\ ~conn.destroyed
    /\ Len(socket.sent) + Len(reply) <= MaxStream
    /\ Step([World EXCEPT !.socket.inflight = @ \o reply, !.socket.sent = @ \o reply])

\* the socket has the next n bytes, cut anywhere: the chunk may end in the middle
\* of a line, and may arrive while a deferred _processResponse is still pending
SocketBytes(n) ==
    LET chunk == SubSeq(socket.inflight, 1, n)
    IN  /\ canReceive
        /\ Len(conn.responseQueue) + countLines(chunk) <= MaxPending
        /\ Len(immediates) <= MaxImmediates
        /\ Step(_onData([World EXCEPT !.socket.inflight = SubSeq(@, n + 1, Len(@))],
                        chunk))

\* the sessions that authenticate and reset, their history kept: the server
\* advertises LOGIN, PLAIN and XOAUTH2 and answers with 250, 235 or 550
NextAuth ==
    \/ Connect
    \/ SocketConnect
    \/ \E reply \in {Reply("220"), AuthReply, Authenticated, Reply("550")} : ServerReply(reply)
    \/ RunImmediate
    \/ \E auth \in Credentials : Login(auth)
    \/ \E id \in 1..Len(user.logins) : \E err \in Booleans : TokenReady(id, err)
    \/ Reset

\* the server answers a command that waits for its response, with any of its
\* responses
ServerAnswers(reply) ==
    /\ Len(conn.responseQueue) < Len(conn.responseActions)
    /\ SocketData(reply)

\* the sessions that send mail to a server that answers every command and the
\* message, with no close, error or timeout of the socket: the responses are
\* dispatched and the server answers, sooner or later
SpecLive ==
    /\ InitSend
    /\ [][\/ Connect
          \/ SocketConnect
          \/ \E reply \in SendReplies : ServerAnswers(reply)
          \/ RunImmediate
          \/ \E envelope \in Envelopes, message \in Messages : Send(envelope, message)]_vars
    /\ WF_vars(RunImmediate)
    /\ WF_vars(\E reply \in SendReplies : ServerAnswers(reply))

\* the text of a server seen by the framer: single-line and multi-line
\* responses, and an empty line
FrameReplies ==
    {Reply("220"), Reply("250"), MultiLine("250", "PIPELINING"), <<"\r", "\n">>}

\* implicit TLS, SMTP or LMTP
InitFrame ==
    \E opts \in [secure : {TRUE}, ignoreTLS : {FALSE}, requireTLS : {FALSE},
                 opportunisticTLS : {FALSE}, lmtp : Booleans, envelopeOnly : {FALSE},
                 authMethod : {""}] :
        InitTraced(opts)

NextFrame ==
    \/ Connect
    \/ SocketConnect
    \/ \E reply \in FrameReplies : ServerSends(reply)
    \/ \E n \in 1..Len(socket.inflight) : SocketBytes(n)
    \/ RunImmediate

SpecFrame == InitFrame /\ [][NextFrame]_vars

SpecAuth == InitFrame /\ [][NextAuth]_vars

\* the sessions that upgrade with STARTTLS, the text of the server cut anywhere;
\* what is in flight when the handshake completes arrives over TLS
SpecUpgrade ==
    /\ InitTraced([secure |-> FALSE, ignoreTLS |-> FALSE, requireTLS |-> TRUE,
                   opportunisticTLS |-> FALSE, lmtp |-> FALSE, envelopeOnly |-> FALSE,
                   authMethod |-> ""])
    /\ [][NextFrame \/ TlsConnect]_vars

\* the socket has a chunk of whole responses, which may arrive while a deferred
\* _processResponse is still pending
SocketChunk(chunk) ==
    /\ canReceive
    /\ ~conn.destroyed
    /\ Len(conn.responseQueue) + countLines(chunk) <= MaxPending
    /\ Len(immediates) <= MaxImmediates
    /\ Step(_onData([World EXCEPT !.socket.sent = @ \o chunk], chunk))

\* the sessions that send one message and quit, their history kept: to one or
\* two recipients, with or without PIPELINING, over SMTP or LMTP
SessionReplies ==
    {Reply("220"), MultiLine("250", "PIPELINING"), Reply("354"), Reply("550")}

SessionEnvelopes == [from : {<<"s">>}, to : {<<<<"a">>>>, <<<<"a">>, <<"b">>>>}, size : {0}]

NextSession ==
    \/ Connect
    \/ SocketConnect
    \/ \E chunk \in Chunks(SessionReplies) : SocketChunk(chunk)
    \/ RunImmediate
    \/ \E envelope \in SessionEnvelopes : Send(envelope, "string")
    \/ Quit

SpecSession == InitFrame /\ [][NextSession]_vars

----------------------------------------------------------------------------
(* Vocabulary of the properties *)

\* how many times event was emitted
count(event) == Cardinality({k \in 1..Len(emitted) : emitted[k].event = event})

\* cmd is among the commands written from the place first on
wroteFrom(log, first, cmd) == \E k \in first..Len(log) : log[k].cmd = cmd

\* this step is a call of send(): the caller's list of sends grows
sendCalled == Len(user'.sends) = Len(user.sends) + 1

\* this step handles the response to the last RCPT TO of a send: an RCPT handler
\* is at the head of the queue, and afterwards no recipient is unsent or unanswered
lastRcptHandled ==
    /\ conn.responseActions # <<>>
    /\ Head(conn.responseActions).action = "_actionRCPT"
    /\ conn.recipientQueue # <<>>
    /\ conn'.recipientQueue = <<>>
    /\ conn'.envelope.rcptQueue = <<>>

\* the send whose RCPT handler is at the head of the queue
rcptSend == Head(conn.responseActions).cb

\* every rejection of the envelope so far came from an RCPT TO response
rejectedByRcptOnly(env) ==
    \A k \in 1..Len(env.rejectedErrors) : env.rejectedErrors[k].command = "RCPT TO"

----------------------------------------------------------------------------
(* Properties of send *)

\* C1: whatever the server answers, whatever the message stream, the socket and
\* the timers do, the callback done of a call of send is invoked at most once.
C1_DoneAtMostOnce ==
    \A i \in 1..Len(user.sends) : Len(user.sends[i].done) <= 1

\* the message stream failed, then the server answered: callback twice, done once
C1_Witness ==
    \E i \in 1..Len(user.sends) :
        /\ Len(user.sends[i].calls) >= 2
        /\ user.sends[i].calls[1].err = "ESTREAM"
        /\ Len(user.sends[i].done) = 1

\* C2: when the response to the last RCPT TO of a send has been handled, with or
\* without PIPELINING and whatever the replies were, the accepted and the
\* rejected recipients together are as many as the recipients of the envelope.
C2_AcceptedPlusRejected ==
    [][lastRcptHandled =>
          Len(conn'.envelope.accepted) + Len(conn'.envelope.rejected)
              = Len(conn'.envelope.to)]_vars

\* two recipients, one accepted and one rejected by its RCPT TO response
C2_Witness ==
    /\ conn.envelope.set
    /\ conn.envelope.rcptQueue = <<>> /\ conn.recipientQueue = <<>>
    /\ Len(conn.envelope.to) = 2
    /\ Len(conn.envelope.accepted) = 1
    /\ Len(conn.envelope.rejected) = 1
    /\ rejectedByRcptOnly(conn.envelope)

\* C3: when every RCPT TO of a send got a non-2xx response, handling the last of
\* them calls the callback of the send with an EENVELOPE error that carries
\* rejected (all the recipients) and rejectedErrors (one per recipient); no DATA
\* is written and no handler of that send is left that could write one.  The
\* callback is the guarded one of send(): it hands the error to done unless it
\* was called before (the message stream had failed).
C3_AllRejected ==
    [][(lastRcptHandled /\ Len(conn'.envelope.rejected) = Len(conn'.envelope.to)) =>
          LET before == user.sends[rcptSend].calls
              after == user'.sends[rcptSend].calls
          IN  /\ Len(after) = Len(before) + 1
              /\ SubSeq(after, 1, Len(before)) = before
              /\ after[Len(after)].err = "EENVELOPE"
              /\ after[Len(after)].command = "RCPT TO"
              /\ after[Len(after)].rejected = conn'.envelope.to
              /\ Len(after[Len(after)].rejectedErrors) = Len(conn'.envelope.to)
              /\ \A k \in 1..Len(conn'.envelope.to) :
                     after[Len(after)].rejectedErrors[k].recipient = conn'.envelope.to[k]
              /\ ~user.sends[rcptSend].returned =>
                     user'.sends[rcptSend].done = <<after[Len(after)]>>
              /\ written' = written
              /\ \A k \in 1..Len(conn'.responseActions) :
                     conn'.responseActions[k].cb # rcptSend]_vars

\* both recipients of a send were rejected and its callback got the EENVELOPE
C3_Witness ==
    /\ Len(conn.envelope.to) = 2
    /\ conn.envelope.rejected = conn.envelope.to
    /\ \E i \in 1..Len(user.sends) : \E k \in 1..Len(user.sends[i].calls) :
           /\ user.sends[i].calls[k].err = "EENVELOPE"
           /\ user.sends[i].calls[k].command = "RCPT TO"
           /\ user.sends[i].calls[k].rejected = conn.envelope.to
    /\ ~wroteFrom(written, 1, "DATA")

\* C4: DATA is written only by the step that handles the response to the last
\* RCPT TO, and only if a recipient was accepted and envelopeOnly is not set; on
\* a connection that is open, a partial rejection still writes DATA; with
\* envelopeOnly the callback gets the accepted and rejected lists and no DATA is
\* written.
C4_DataAfterRecipients ==
    [][/\ wroteFrom(written', Len(written) + 1, "DATA") =>
              /\ lastRcptHandled
              /\ Len(conn'.envelope.accepted) >= 1
              /\ ~options.envelopeOnly
       /\ (/\ lastRcptHandled
           /\ Len(conn'.envelope.accepted) >= 1
           /\ ~options.envelopeOnly
           /\ ~conn.destroyed /\ ~socket.destroyed) =>
              /\ written' = Append(written, [cmd |-> "DATA", arg |-> <<>>])
              /\ conn'.responseActions # <<>>
              /\ conn'.responseActions[Len(conn'.responseActions)].action = "_actionDATA"
       /\ (/\ lastRcptHandled
           /\ Len(conn'.envelope.accepted) >= 1
           /\ options.envelopeOnly) =>
              LET before == user.sends[rcptSend].calls
                  after == user'.sends[rcptSend].calls
              IN  /\ written' = written
                  /\ Len(after) = Len(before) + 1
                  /\ after[Len(after)].err = ""
                  /\ after[Len(after)].accepted = conn'.envelope.accepted
                  /\ after[Len(after)].rejected = conn'.envelope.rejected
                  /\ ~user.sends[rcptSend].returned =>
                         user'.sends[rcptSend].done = <<after[Len(after)]>>]_vars

\* DATA was written for two recipients of which the server refused one
C4_Witness ==
    /\ wroteFrom(written, 1, "DATA")
    /\ Len(conn.envelope.to) = 2
    /\ Len(conn.envelope.accepted) = 1
    /\ Len(conn.envelope.rejected) = 1
    /\ rejectedByRcptOnly(conn.envelope)

\* an address holds one of the characters CR, LF, '<', '>'
forbiddenIn(address) == \E k \in 1..Len(address) : address[k] \in {"\r", "\n", "<", ">"}

\* the envelope as the claim reads it: some address holds a forbidden character,
\* or there is no recipient
refusedAsWritten(envelope) ==
    \/ forbiddenIn(envelope.from)
    \/ \E k \in 1..Len(envelope.to) : forbiddenIn(envelope.to[k])
    \/ envelope.to = <<>>

\* the same of the addresses without their leading and trailing whitespace; a
\* recipient that is empty is refused too
refusedOnceTrimmed(envelope) ==
    \/ forbiddenIn(trim(envelope.from))
    \/ \E k \in 1..Len(envelope.to) :
           forbiddenIn(trim(envelope.to[k])) \/ trim(envelope.to[k]) = <<>>
    \/ envelope.to = <<>>

\* what a call of send does when it refuses the envelope
refusesEnvelope ==
    LET id == Len(user'.sends)
    IN  /\ user'.sends[id].done = <<Failure("EENVELOPE", "API")>>
        /\ written' = written
        /\ conn'.responseActions = conn.responseActions

\* C5 as claimed: a call of send with an envelope in which the sender or a
\* recipient holds CR, LF, '<' or '>', or with no recipient, fails with
\* EENVELOPE, writes no command and pushes no handler.
C5_AsClaimed ==
    [][(sendCalled /\ refusedAsWritten(user'.sends[Len(user'.sends)].envelope))
          => refusesEnvelope]_vars

\* C5 amended: the same of the addresses once trimmed, for a call of send with a
\* message, and one not over the size limit of the server; without a message
\* send fails with EMESSAGE instead, and writes and pushes nothing either.
C5_InvalidEnvelope ==
    [][/\ (/\ sendCalled
            /\ refusedOnceTrimmed(user'.sends[Len(user'.sends)].envelope)
            /\ user'.sends[Len(user'.sends)].message # ""
            /\ ~(/\ conn.maxAllowedSize # 0
                 /\ user'.sends[Len(user'.sends)].envelope.size > conn.maxAllowedSize))
              => refusesEnvelope
       /\ (sendCalled /\ user'.sends[Len(user'.sends)].message = "") =>
              /\ user'.sends[Len(user'.sends)].done = <<Failure("EMESSAGE", "API")>>
              /\ written' = written
              /\ conn'.responseActions = conn.responseActions]_vars

\* a send with a message and a recipient holding '<' failed with EENVELOPE
C5_Witness ==
    \E i \in 1..Len(user.sends) :
        /\ user.sends[i].message # ""
        /\ \E k \in 1..Len(user.sends[i].envelope.to) :
               user.sends[i].envelope.to[k] = <<"a", "<">>
        /\ user.sends[i].done = <<Failure("EENVELOPE", "API")>>

\* the size limit advertised by an EHLO response, 0 when there is none
advertisedSize(str) ==
    IF charAt0(str) # "2" \/ sizeMatch(str) = 0 THEN 0 ELSE sizeValue(str, sizeMatch(str))

\* C6: when the last EHLO advertised SIZE n, n > 0, a call of send with an
\* envelope of a size over n writes nothing, leaves the handler queue as it is,
\* and has the callback called with an EMESSAGE error of command MAIL FROM.
C6_SizeLimit ==
    [][(/\ sendCalled
        /\ advertisedSize(lastEHLO) > 0
        /\ user'.sends[Len(user'.sends)].envelope.size > advertisedSize(lastEHLO))
          => /\ written' = written
             /\ conn'.responseActions = conn.responseActions
             /\ immediates' = Append(immediates, DoneTask(Len(user'.sends)))]_vars

----------------------------------------------------------------------------
(* Properties of the life of a connection *)

\* C7: 'end' is emitted once when the connection reaches its terminal state
\* (close() ran, the socket closed, or the connection is destroyed) and never a
\* second time, whatever close(), quit(), the socket and the timers do.
C7_EndOnce ==
    /\ count("end") <= 1
    /\ conn.destroyed <=> count("end") = 1
    /\ conn.closing => count("end") = 1
    /\ socket.state = "closed" => count("end") = 1

\* close() ran, the peer ended and the socket closed: one 'end'
C7_Witness ==
    /\ conn.closing
    /\ socket.peerEnded
    /\ socket.state = "closed"
    /\ count("end") = 1

\* C8: in every state close() twice is close() once: the second call leaves
\* everything as it is, the transport and the events included; close() cancels
\* both timers and empties the handler queue, and its first call ends the
\* transport with destroy() in stage init and with end() otherwise.
C8_CloseIdempotent ==
    LET once == close(World)
        twice == close(once)
    IN  /\ twice = once
        /\ ~once.conn.connectionTimeout
        /\ ~once.conn.greetingTimeout
        /\ once.conn.responseActions = <<>>
        /\ (~conn.closing /\ socket.state # "none" /\ ~socket.destroyed) =>
               once.socket.calls =
                   Append(socket.calls, IF conn.stage = "init" THEN "destroy" ELSE "end")
        /\ conn.closing => (once.socket.calls = socket.calls /\ once.emitted = emitted)

\* close() was called while the socket was connecting: destroy(), once
C8_Witness ==
    /\ conn.closing
    /\ conn.stage = "init"
    /\ socket.calls = <<"destroy">>
    /\ conn.responseActions = <<>>

\* the events of w are those so far, then 'error' and 'end' 
errorThenEnd(w, code, command) ==
    w.emitted = emitted \o <<[event |-> "error", code |-> code, command |-> command],
                             [event |-> "end", code |-> "", command |-> ""]>>

\* the transport of w was closed: end() or destroy() was called, or it is gone
transportClosed(w) ==
    w.socket.state = "none" \/ w.socket.destroyed \/ w.socket.ended

C10_RequireTLS ==
    /\ (/\ options.requireTLS
        /\ ~conn.secure
        /\ ~conn.destroyed
        /\ charAt0(lastEHLO) = "2"
        /\ ~hasKeyword(lastEHLO, "STARTTLS")) =>
           wroteFrom(written, 1, "STARTTLS")
    /\ (/\ options.requireTLS
        /\ ~options.opportunisticTLS
        /\ ~conn.destroyed
        /\ conn.responseActions # <<>>
        /\ Head(conn.responseActions).action = "_actionSTARTTLS") =>
           LET refused == _actionSTARTTLS([World EXCEPT !.conn.responseActions = Tail(@)],
                                          Reply("502"))
           IN  /\ errorThenEnd(refused, "ETLS", "STARTTLS")
               /\ transportClosed(refused)
               /\ refused.conn.responseActions = <<>>
    /\ (options.requireTLS /\ ~options.opportunisticTLS) =>
           \A k \in 1..Len(emitted) :
               emitted[k].code = "ETLS" =>
                   /\ count("connect") = 0
                   /\ k < Len(emitted) /\ emitted[k + 1].event = "end"
                   /\ transportClosed(World)

----------------------------------------------------------------------------
(* Properties of the EHLO exchange *)

\* the last response to EHLO was a failure (not 2xx)
ehloFailed == lastEHLO # <<>> /\ charAt0(lastEHLO) # "2"

\* the handler at the head of the queue is `action`, on a live connection
awaiting(action) ==
    /\ ~conn.destroyed
    /\ conn.responseActions # <<>>
    /\ Head(conn.responseActions).action = action

\* the world once the handler at the head of the queue was called with str
answered(str) ==
    runAction([World EXCEPT !.conn.responseActions = Tail(@)],
              Head(conn.responseActions), str)

\* w is the world after HELO alone was written and its handler alone pushed
fellBackToHELO(w) ==
    /\ w.written = Append(written, [cmd |-> "HELO", arg |-> <<>>])
    /\ w.conn.responseActions = Append(Tail(conn.responseActions), PlainHandler("_actionHELO"))
    /\ w.emitted = emitted
    /\ ~w.conn.destroyed

\* w is the world after the response to EHLO was fatal
ehloWasFatal(w) ==
    /\ errorThenEnd(w, "ECONNECTION", "EHLO")
    /\ w.written = written
    /\ w.conn.destroyed
    /\ w.conn.responseActions = <<>>
    /\ transportClosed(w)

\* with requireTLS a failed EHLO is fatal: HELO is never written, an error for
\* EHLO is emitted and the connection is closed
fatalWithRequireTLS ==
    /\ options.requireTLS => ~wroteFrom(written, 1, "HELO")
    /\ (options.requireTLS /\ awaiting("_actionEHLO")) =>
           /\ ehloWasFatal(answered(Reply("502")))
           /\ ehloWasFatal(answered(Reply("421")))
    /\ (options.requireTLS /\ ehloFailed) =>
           /\ conn.destroyed
           /\ count("connect") = 0

\* a 2xx response to HELO emits 'connect'
heloCompletes ==
    awaiting("_actionHELO") =>
        answered(Reply("250")).emitted =
            Append(emitted, [event |-> "connect", code |-> "", command |-> ""])

C11_FallbackReached ==
    /\ ~options.requireTLS
    /\ ehloFailed
    /\ wroteFrom(written, 1, "HELO")
    /\ count("connect") = 1

----------------------------------------------------------------------------
(* Properties of the upgrade with STARTTLS *)

\* the connection was upgraded with STARTTLS
upgraded == conn.secure /\ ~options.secure

\* the handshake of the upgrade completes in this step, on a live connection
handshakeCompletes ==
    /\ socket.layer = "handshake"
    /\ socket'.layer = "tls"
    /\ ~conn.destroyed

\* the command written right after STARTTLS, if any, is EHLO
ehloFollowsSTARTTLS ==
    \E k \in 1..Len(written) :
        /\ written[k].cmd = "STARTTLS"
        /\ \A j \in 1..Len(written) : written[j].cmd = "STARTTLS" => j = k
        /\ k < Len(written) => written[k + 1].cmd = "EHLO"

\* the registry holds what the last response to EHLO advertised, and no more
registryFromLastEHLO ==
    /\ conn.supportedExtensions =
           IF charAt0(lastEHLO) = "2" /\ sizeMatch(lastEHLO) # 0
           THEN <<"SIZE">> ELSE <<>>
    /\ conn.maxAllowedSize = advertisedSize(lastEHLO)
    /\ conn.supportedAuth = <<>>

\* C12: after a 2xx reply to STARTTLS and a successful TLS handshake the first
\* command written is EHLO, before any other command, and the registry of
\* capabilities at 'connect' is built from the response to that EHLO only, not
\* from the response to the EHLO sent before the upgrade.
C12_EhloAfterUpgrade ==
    /\ [](upgraded => ehloFollowsSTARTTLS)
    /\ []((upgraded /\ connected) => registryFromLastEHLO)
    /\ [][handshakeCompletes =>
              /\ written' = Append(written, [cmd |-> "EHLO", arg |-> <<>>])
              /\ conn'.responseActions = <<PlainHandler("_actionEHLO")>>
              /\ emitted' = emitted
              /\ conn'.supportedExtensions = <<>>
              /\ conn'.maxAllowedSize = 0]_vars

\* the server advertised SIZE before the upgrade and not after it: at 'connect'
\* the registry is empty
C12_Witness ==
    /\ upgraded
    /\ connected
    /\ ~conn.destroyed
    /\ lastEHLO = <<"220">>
    /\ conn.supportedExtensions = <<>>
    /\ conn.maxAllowedSize = 0
    /\ written = <<[cmd |-> "EHLO", arg |-> <<>>], [cmd |-> "STARTTLS", arg |-> <<>>],
                   [cmd |-> "EHLO", arg |-> <<>>]>>

----------------------------------------------------------------------------
(* Properties of the LMTP completion *)

\* the recipients of the LMTP handlers in the queue, in the order of the queue
RECURSIVE lmtpPending(_)
lmtpPending(actions) ==
    IF actions = <<>> THEN <<>>
    ELSE IF Head(actions).action = "_actionLMTPStream"
         THEN <<Head(actions).recipient>> \o lmtpPending(Tail(actions))
         ELSE lmtpPending(Tail(actions))

\* seq without its element at place k
without(seq, k) == SubSeq(seq, 1, k - 1) \o SubSeq(seq, k + 1, Len(seq))

\* the last thing the guarded callback of the id-th send was called with, in w
lastCall(w, id) == w.user.sends[id].calls[Len(w.user.sends[id].calls)]

\* C13: in LMTP mode the responses after the body are consumed one per accepted
\* recipient, in order; a non-2xx response moves exactly that recipient from
\* accepted to rejected (a 2xx response moves nothing), and the info object the
\* callback of send gets with the last response carries the error of every
\* recipient rejected in rejectedErrors, also when no recipient was rejected
\* during the RCPT phase.
C13_LmtpPerRecipient ==
    awaiting("_actionLMTPStream") =>
        LET h == Head(conn.responseActions)
            env == conn.envelope
            pending == lmtpPending(conn.responseActions)
            place == Len(env.accepted) - Len(pending) + 1
            refused == answered(<<"550">>)
            delivered == answered(<<"250">>)
        IN  /\ Len(pending) <= Len(env.accepted)
            /\ pending = SubSeq(env.accepted, place, Len(env.accepted))
            /\ h.final <=> Len(pending) = 1
            /\ refused.conn.envelope.rejected = Append(env.rejected, h.recipient)
            /\ refused.conn.envelope.accepted = without(env.accepted, place)
            /\ delivered.conn.envelope = env
            /\ h.final =>
                   /\ Len(refused.user.sends[h.cb].calls) = Len(user.sends[h.cb].calls) + 1
                   /\ lastCall(refused, h.cb).err = ""
                   /\ lastCall(refused, h.cb).rejected = refused.conn.envelope.rejected
                   /\ lastCall(refused, h.cb).rejectedErrors
                          = refused.conn.envelope.rejectedErrors
                   /\ lastCall(delivered, h.cb).rejectedErrors = env.rejectedErrors

\* C14: in LMTP mode, when the responses after the body were non-2xx for every
\* recipient, so that none remains accepted, the callback of send gets an error,
\* not the info object of a success; when a recipient remains accepted it gets
\* the info object.
C14_LmtpAllRejected ==
    (awaiting("_actionLMTPStream") /\ Head(conn.responseActions).final) =>
        LET h == Head(conn.responseActions)
            refused == answered(<<"550">>)
            delivered == answered(<<"250">>)
        IN  /\ Len(refused.user.sends[h.cb].calls) = Len(user.sends[h.cb].calls) + 1
            /\ refused.conn.envelope.accepted = <<>> => lastCall(refused, h.cb).err # ""
            /\ refused.conn.envelope.accepted # <<>> => lastCall(refused, h.cb).err = ""
            /\ lastCall(delivered, h.cb).err = ""

----------------------------------------------------------------------------
(* Properties of reset *)

\* this step is a call of reset(): the caller's list of resets grows
resetCalled == Len(user'.resets) = Len(user.resets) + 1

\* C15: reset(cb) writes RSET; a 2xx response clears the stored envelope and cb
\* gets success; a non-2xx response has cb get an EPROTOCOL error, leaves the
\* stored envelope as it is, and does not close the connection.
C15_Reset ==
    /\ [][resetCalled =>
              /\ written' = Append(written, [cmd |-> "RSET", arg |-> <<>>])
              /\ conn'.responseActions =
                     Append(conn.responseActions,
                            Handler("_actionRSET", Len(user'.resets), <<>>, FALSE))
              /\ user'.resets[Len(user'.resets)] = <<>>]_vars
    /\ [](awaiting("_actionRSET") =>
              LET id == Head(conn.responseActions).cb
                  cleared == answered(<<"250">>)
                  refused == answered(<<"502">>)
              IN  /\ ~cleared.conn.envelope.set
                  /\ cleared.conn.envelope = NoEnvelope
                  /\ cleared.user.resets[id] = Append(user.resets[id], "")
                  /\ refused.user.resets[id] = Append(user.resets[id], "EPROTOCOL")
                  /\ refused.conn.envelope = conn.envelope
                  /\ ~refused.conn.destroyed
                  /\ refused.emitted = emitted
                  /\ refused.socket = socket
                  /\ refused.written = written)

\* a send stored an envelope, then the server refused RSET: the callback of
\* reset got EPROTOCOL, the envelope is there and the connection is open
C15_Witness ==
    /\ user.resets = <<<<"EPROTOCOL">>>>
    /\ conn.envelope.set
    /\ conn.envelope.to # <<>>
    /\ ~conn.destroyed
    /\ count("error") = 0
    /\ socket.calls = <<>>

----------------------------------------------------------------------------
(* Properties of the 'close' event of the socket *)

\* the 'close' event of the socket arrives in this step
closeArrives ==
    /\ socket.state \in {"open", "closing"}
    /\ socket.listening
    /\ socket'.state = "closed"

\* the handler at the head of the queue is the one of the greeting, or the
\* close handler quit() pushed
expectsClose ==
    /\ conn.responseActions # <<>>
    /\ Head(conn.responseActions).action \in {"_actionGreeting", "close"}

\* C16: the 'close' event of the socket is silent when the handler at the head
\* of the queue is the greeting handler or the close handler of quit(), or when
\* the connection is destroyed already: no 'error', and 'end' unless it was
\* emitted before.  In every other state, an empty handler queue included, it
\* emits an ECONNECTION error and then 'end'.
C16_SocketClose ==
    [][closeArrives =>
          emitted' = emitted \o
              (IF conn.destroyed THEN <<>>
               ELSE IF expectsClose THEN <<[event |-> "end", code |-> "", command |-> ""]>>
               ELSE <<[event |-> "error", code |-> "ECONNECTION", command |-> "CONN"],
                      [event |-> "end", code |-> "", command |-> ""]>>)]_vars

\* the socket closed while the close handler of quit() was waiting for the
\* response to QUIT: 'end' alone, and close() never ran
C16_Witness ==
    /\ user.quit
    /\ conn.responseActions = <<PlainHandler("close")>>
    /\ socket.state = "closed"
    /\ ~socket.peerEnded
    /\ socket.calls = <<>>
    /\ emitted = <<[event |-> "connect", code |-> "", command |-> ""],
                   [event |-> "end", code |-> "", command |-> ""]>>

\* the socket closed on an idle connection, its handler queue empty: the error
C16_IdleClosed ==
    /\ ~user.quit
    /\ socket.state = "closed"
    /\ emitted = <<[event |-> "connect", code |-> "", command |-> ""],
                   [event |-> "error", code |-> "ECONNECTION", command |-> "CONN"],
                   [event |-> "end", code |-> "", command |-> ""]>>

----------------------------------------------------------------------------
(* Properties of login *)

\* C17: the callback of a login() call is called at most once, whatever the
\* mechanism (PLAIN, LOGIN, CRAM-MD5, XOAUTH2, NTLM), the responses of the
\* server, the token provider and the later operations of the caller.
C17_LoginCallbackOnce ==
    \A i \in 1..Len(user.logins) : Len(user.logins[i].calls) <= 1

\* this step is a call of login(): the caller's list of logins grows
loginCalled == Len(user'.logins) = Len(user.logins) + 1

\* the credentials of the login() called in this step
calledWith == user'.logins[Len(user'.logins)].auth

\* the session is connected on the strength of a 2xx response to EHLO
greetedWithEHLO == connected /\ ~conn.destroyed /\ charAt0(lastEHLO) = "2"

\* C18: NTLM can be selected by supplying domain: a login() with a domain,
\* without xoauth2 and without an override of the method, on a session whose
\* server advertised NTLM in its response to EHLO, selects NTLM and writes the
\* AUTH command with the NTLM Type1 message.
C18_NtlmByDomain ==
    [][(/\ loginCalled
        /\ calledWith.domain
        /\ calledWith.xoauth2 = ""
        /\ options.authMethod = ""
        /\ greetedWithEHLO
        /\ hasAuth(lastEHLO, "NTLM"))
          => /\ conn'.authMethod = "NTLM"
             /\ written' = Append(written, [cmd |-> "AUTH NTLM", arg |-> <<"type1">>])]_vars

\* without an override no login() ever selects NTLM, domain or not
NtlmOnlyByOverride ==
    (options.authMethod = "") =>
        /\ conn.authMethod # "NTLM"
        /\ ~wroteFrom(written, 1, "AUTH NTLM")
        /\ \A k \in 1..Len(conn.supportedAuth) : conn.supportedAuth[k] # "NTLM"

\* the mechanisms login() knows a handler for, as _actionEHLO looks for them
Recognised == <<"PLAIN", "LOGIN", "CRAM-MD5", "XOAUTH2">>

\* the recognised mechanisms of the AUTH line of str, in their order in str
inOrderOfAppearance(str) ==
    SelectSeq(str, LAMBDA tok : \E k \in 1..Len(Recognised) :
                                    tok = Recognised[k] /\ hasAuth(str, tok))

\* the recognised mechanisms of the AUTH line of str, in the order of Recognised
inFixedOrder(str) == SelectSeq(Recognised, LAMBDA mech : hasAuth(str, mech))

\* a login() without override, xoauth2 or domain is called in this step
plainLoginCalled ==
    /\ loginCalled
    /\ options.authMethod = ""
    /\ calledWith = [xoauth2 |-> "", domain |-> FALSE]

\* C19 as claimed: the list of supported mechanisms built from an EHLO response
\* has the recognised mechanisms in their order in the AUTH line ('AUTH LOGIN
\* PLAIN XOAUTH2' gives LOGIN, PLAIN, XOAUTH2), so a login() without override,
\* xoauth2 or domain uses the first mechanism the server advertised.
C19_AsClaimed ==
    /\ [](greetedWithEHLO => conn.supportedAuth = inOrderOfAppearance(lastEHLO))
    /\ [][(plainLoginCalled /\ greetedWithEHLO /\ inOrderOfAppearance(lastEHLO) # <<>>)
             => conn'.authMethod = inOrderOfAppearance(lastEHLO)[1]]_vars

\* C19: the list of supported mechanisms built from an EHLO response has the
\* recognised mechanisms of the AUTH line in the fixed order PLAIN, LOGIN,
\* CRAM-MD5, XOAUTH2, whatever their order in the line ('AUTH LOGIN PLAIN
\* XOAUTH2' gives PLAIN, LOGIN, XOAUTH2); a login() without override, xoauth2
\* or domain uses the first of that list, and PLAIN when the list is empty.
C19_FixedOrder ==
    /\ [](greetedWithEHLO => conn.supportedAuth = inFixedOrder(lastEHLO))
    /\ [][(plainLoginCalled /\ greetedWithEHLO)
             => /\ conn'.authMethod =
                       IF inFixedOrder(lastEHLO) = <<>> THEN "PLAIN"
                       ELSE inFixedOrder(lastEHLO)[1]
                /\ written' = Append(written, [cmd |-> "AUTH " \o conn'.authMethod,
                                               arg |-> <<>>])]_vars

\* the server advertised 'AUTH LOGIN PLAIN XOAUTH2' and a login() without
\* override, xoauth2 or domain wrote AUTH PLAIN
C19_Witness ==
    /\ lastEHLO = <<"250", " ", "AUTH", " ", "LOGIN", " ", "PLAIN", " ", "XOAUTH2">>
    /\ conn.supportedAuth = <<"PLAIN", "LOGIN", "XOAUTH2">>
    /\ options.authMethod = ""
    /\ Len(user.logins) = 1
    /\ user.logins[1].auth = [xoauth2 |-> "", domain |-> FALSE]
    /\ conn.authMethod = "PLAIN"
    /\ written = <<[cmd |-> "EHLO", arg |-> <<>>], [cmd |-> "AUTH PLAIN", arg |-> <<>>]>>

\* the handler at the head of the queue belongs to an XOAUTH2 login
awaitingXOauth2(action) ==
    /\ awaiting(action)
    /\ conn.authMethod = "XOAUTH2"
    /\ Head(conn.responseActions).cb \in 1..Len(user.logins)

\* the login the handler at the head of the queue belongs to
headLogin == Head(conn.responseActions).cb

\* in w one more call of the callback of the login id was made: EAUTH
surfacedEAUTH(w, id) ==
    /\ w.user.logins[id].calls =
           Append(user.logins[id].calls, [err |-> "EAUTH", command |-> "AUTH XOAUTH2"])
    /\ ~w.user.logins[id].retryTimer
    /\ w.user.logins[id].generateToken = user.logins[id].generateToken

\* in w the retry of the login id was set off, and its callback not called; the
\* retry asks generateToken for the token
retrySetOff(w, id) ==
    /\ w.user.logins[id].calls = user.logins[id].calls
    /\ w.user.logins[id].retryTimer
    /\ retryTimerFired(w, id).user.logins[id].generateToken
           = user.logins[id].generateToken + 1
    /\ retryTimerFired(w, id).user.logins[id].pending = "generateToken"

\* no login calls generateToken twice, and one without a token provider calls
\* neither generateToken nor getToken and never sets off a retry
tokensAskedOnce ==
    \A i \in 1..Len(user.logins) :
        /\ user.logins[i].generateToken <= 1
        /\ user.logins[i].auth.xoauth2 # "provider" =>
               /\ user.logins[i].generateToken = 0
               /\ user.logins[i].getToken = 0
               /\ ~user.logins[i].retryTimer

\* the failure of an attempt that cannot be retried surfaces as EAUTH: the
\* retry itself, and every attempt of a login without a token provider
lastAttemptFails ==
    /\ (awaitingXOauth2("_actionAUTHComplete")
            /\ (Head(conn.responseActions).final \/ ~hasTokenProvider(World))) =>
           surfacedEAUTH(answered(<<"550">>), headLogin)
    /\ (awaitingXOauth2("authContinued")
            /\ (Head(conn.responseActions).final \/ ~hasTokenProvider(World))) =>
           surfacedEAUTH(answered(<<"550">>), headLogin)

\* C20 as claimed: in an XOAUTH2 login with a token provider every failed first
\* attempt is retried, once, with a token of generateToken, before EAUTH is
\* surfaced; generateToken is called once per login at most; with a string as
\* the credential no retry is made and the failure surfaces as EAUTH.
C20_AsClaimed ==
    /\ tokensAskedOnce
    /\ lastAttemptFails
    /\ (awaitingXOauth2("_actionAUTHComplete")
            /\ ~Head(conn.responseActions).final /\ hasTokenProvider(World)) =>
           retrySetOff(answered(<<"550">>), headLogin)
    /\ (awaitingXOauth2("authContinued")
            /\ ~Head(conn.responseActions).final /\ hasTokenProvider(World)) =>
           retrySetOff(answered(<<"550">>), headLogin)

\* C20: in an XOAUTH2 login with a token provider a first attempt that the
\* server answered with 334 is retried, once, with a token of generateToken,
\* when the response to the empty line arrives, whatever that response is; a
\* first attempt refused without a 334 surfaces as EAUTH at once, with no retry.  generateToken is called
\* once per login at most; with a string as the credential no retry is made and
\* the failure surfaces as EAUTH.
C20_RetryOnce ==
    /\ tokensAskedOnce
    /\ lastAttemptFails
    /\ (awaitingXOauth2("_actionAUTHComplete")
            /\ ~Head(conn.responseActions).final /\ hasTokenProvider(World)) =>
           surfacedEAUTH(answered(<<"550">>), headLogin)
    /\ (awaitingXOauth2("authContinued")
            /\ ~Head(conn.responseActions).final /\ hasTokenProvider(World)) =>
           /\ retrySetOff(answered(<<"550">>), headLogin)
           /\ retrySetOff(answered(<<"235", " ", "ok">>), headLogin)

\* a login with a token provider failed twice: the first attempt with the token
\* of getToken, the retry with the token of generateToken, then EAUTH
C20_Witness ==
    /\ Len(user.logins) = 1
    /\ user.logins[1].auth.xoauth2 = "provider"
    /\ user.logins[1].getToken = 1
    /\ user.logins[1].generateToken = 1
    /\ ~user.logins[1].tokenFailed
    /\ user.logins[1].calls = <<[err |-> "EAUTH", command |-> "AUTH XOAUTH2"]>>
    /\ written = <<[cmd |-> "EHLO", arg |-> <<>>], [cmd |-> "AUTH XOAUTH2", arg |-> <<>>],
                   [cmd |-> "", arg |-> <<>>], [cmd |-> "AUTH XOAUTH2", arg |-> <<>>],
                   [cmd |-> "", arg |-> <<>>]>>

----------------------------------------------------------------------------
(* Properties of the recipient lists *)

\* no element of xs is an element of ys
disjoint(xs, ys) == \A i \in 1..Len(xs), j \in 1..Len(ys) : xs[i] # ys[j]

\* how many times x is in xs
occurrences(xs, x) == Cardinality({i \in 1..Len(xs) : xs[i] = x})

\* no address is twice in xs
distinct(xs) == \A i, j \in 1..Len(xs) : xs[i] = xs[j] => i = j

\* the original statement of C21: at the end of the RCPT phase no address is
\* both accepted and rejected, whatever the recipient list and the replies
C21_AsClaimed ==
    [][lastRcptHandled =>
          disjoint(conn'.envelope.accepted, conn'.envelope.rejected)]_vars

\* C21: at the end of the RCPT phase every address is in the accepted and the
\* rejected list together as many times as it is in the recipient list, so the
\* two lists are disjoint whenever no address is twice in the recipient list.
C21_DisjointWhenDistinct ==
    [][lastRcptHandled =>
          LET env == conn'.envelope
          IN  /\ \A k \in 1..Len(env.to) :
                     occurrences(env.accepted, env.to[k])
                         + occurrences(env.rejected, env.to[k])
                             = occurrences(env.to, env.to[k])
              /\ distinct(env.to) => disjoint(env.accepted, env.rejected)]_vars

\* two different recipients, the first accepted and the second refused
C21_Witness ==
    /\ conn.envelope.set
    /\ conn.envelope.rcptQueue = <<>> /\ conn.recipientQueue = <<>>
    /\ conn.envelope.to = <<<<"a">>, <<"b">>>>
    /\ conn.envelope.accepted = <<<<"a">>>>
    /\ conn.envelope.rejected = <<<<"b">>>>

\* the same recipient twice, accepted once and refused once
C21_SameAddressInBoth ==
    /\ conn.envelope.set
    /\ conn.envelope.rcptQueue = <<>> /\ conn.recipientQueue = <<>>
    /\ conn.envelope.to = <<<<"a">>, <<"a">>>>
    /\ conn.envelope.accepted = <<<<"a">>>>
    /\ conn.envelope.rejected = <<<<"a">>>>

----------------------------------------------------------------------------
(* Properties of the framer and the dispatcher *)

\* the events of one kind in the history, in order
eventsOf(kind) == SelectSeq(trace, LAMBDA ev : ev.e = kind)

\* the response strings passed to handlers so far, in order
delivered == [k \in 1..Len(eventsOf("call")) |-> eventsOf("call")[k].str]

\* the response queue after the whole text arrived in one chunk on a fresh
\* connection: its complete lines, the lines of a multi-line response joined
inOneChunk(text) ==
    LET lines == splitLines(text, <<>>)
    IN  queueLines(<<>>, SubSeq(lines, 1, Len(lines) - 1))

\* the entries of that queue _processResponse hands on: an entry that ends
\* with a continuation line is not dispatched
dispatchable(queue) == SelectSeq(queue, LAMBDA str : ~isContinuation(lastLineOf(str)))

isPrefix(xs, ys) == Len(xs) <= Len(ys) /\ \A k \in 1..Len(xs) : xs[k] = ys[k]

\* C22: the strings passed to handlers so far are the first of the strings that
\* are dispatched when all the text the server sent arrives in one chunk,
\* wherever the chunks were cut.
C22_ChunkingIndependent ==
    isPrefix(delivered, dispatchable(inOneChunk(socket.sent)))

\* a multi-line response that arrived in several chunks, cut inside its lines
\* only, was passed whole to the handler of EHLO or LHLO
C22_CutInsideLines ==
    /\ Len(delivered) = 2
    /\ delivered[2] = <<"250", "-", "PIPELINING", "\n", "250">>
    /\ connected

\* a final line: a status code, then a space or the end of the line
isFinalLine(line) ==
    /\ line # <<>>
    /\ line[1] \in Codes
    /\ Len(line) >= 2 => line[2] = " "

\* C27: every response string passed to a handler ends with a final line, a
\* status code followed by a space or by the end of the line, wherever the
\* chunks were cut.
C27_EndsWithFinalLine ==
    \A k \in 1..Len(delivered) : isFinalLine(lastLineOf(delivered[k]))

\* no response string passed to a handler ends with a continuation line
C27_NeverContinuation ==
    \A k \in 1..Len(delivered) : ~isContinuation(lastLineOf(delivered[k]))

\* C28: an empty line of the server is skipped: no handler is taken off the
\* queue and called with it.
C28_EmptyLinesSkipped ==
    \A k \in 1..Len(delivered) : ~isBlank(delivered[k])

\* no handler is pending on a connection that is not destroyed
noHandlerPending == conn.responseActions = <<>> /\ ~conn.destroyed

\* w is the world after the failure 'Unexpected Response': 'error' with
\* EPROTOCOL and then 'end' were emitted, and the connection was closed
unexpectedResponse(w) ==
    /\ w.emitted = emitted \o <<[event |-> "error", code |-> "EPROTOCOL", command |-> "CONN"],
                                [event |-> "end", code |-> "", command |-> ""]>>
    /\ w.conn.destroyed
    /\ w.conn.closing
    /\ w.socket.calls = socket.calls \o <<"end">>

\* C26: a complete response dispatched while no handler is pending and the
\* connection is not destroyed fails the connection with EPROTOCOL: 'error' is
\* emitted and the connection is closed, whether the response is dispatched by
\* the deferred _processResponse or at once when its chunk arrives.
C26_UnexpectedResponse ==
    noHandlerPending =>
        /\ (conn.responseQueue # <<>>
                /\ ~isContinuation(lastLineOf(Head(conn.responseQueue)))) =>
               unexpectedResponse(_processResponse(World))
        /\ (canReceive /\ conn.responseQueue = <<>> /\ conn.remainder = <<>>) =>
               \A reply \in ConnectReplies : unexpectedResponse(_onData(World, reply))

\* a response arrived on a connected session that awaited none
C26_Witness ==
    \E k \in 1..Len(emitted) :
        /\ emitted[k].event = "connect"
        /\ Len(emitted) = k + 2
        /\ emitted[k + 1] = [event |-> "error", code |-> "EPROTOCOL", command |-> "CONN"]
        /\ emitted[k + 2].event = "end"
        /\ ~user.quit

----------------------------------------------------------------------------
(* Errors after the callback of an operation *)

\* in this step the guarded callback of the i-th send is called with an error
\* after the callback done of that send has been called
lateError(i) ==
    /\ user.sends[i].done # <<>>
    /\ Len(user'.sends[i].calls) > Len(user.sends[i].calls)
    /\ user'.sends[i].calls[Len(user'.sends[i].calls)].err # ""

\* C23: an error of a send that arises after the callback of the send has been
\* called is fatal: the connection is closed, 'error' and then 'end' are emitted.
C23_LateErrorIsFatal ==
    [][\A i \in 1..Len(user.sends) :
           lateError(i) =>
               /\ conn'.destroyed
               /\ Len(emitted') = Len(emitted) + 2
               /\ emitted'[Len(emitted) + 1].event = "error"
               /\ emitted'[Len(emitted) + 2].event = "end"]_vars

\* the message stream failed, the callback got ESTREAM, and then the server
\* refused a command of the send while the connection stayed open
C23_LateErrorIgnored ==
    \E i \in 1..Len(user.sends) :
        /\ Len(user.sends[i].calls) = 2
        /\ user.sends[i].calls[1].err = "ESTREAM"
        /\ user.sends[i].calls[2].err = "EENVELOPE"
        /\ ~conn.destroyed
        /\ count("error") = 0

----------------------------------------------------------------------------
(* The end of the connection *)

\* C24: once 'end' has been emitted, a step emits neither 'connect' nor
\* 'error', even when responses received before are still queued.
C24_EndIsTerminal ==
    [][count("end") > 0 =>
           \A k \in (Len(emitted) + 1)..Len(emitted') :
               emitted'[k].event \notin {"connect", "error"}]_vars

\* once 'end' has been emitted no 'error' follows
C24_NoErrorAfterEnd ==
    [][count("end") > 0 =>
           \A k \in (Len(emitted) + 1)..Len(emitted') :
               emitted'[k].event # "error"]_vars

\* the handlers pushed and the handlers called so far, in order
pushes == eventsOf("push")
calls == eventsOf("call")

\* C25: the handlers are called in the order they were pushed, and the k-th
\* handler pushed is called with the k-th response the server sent, however the
\* responses were batched into chunks and whenever the chunks arrived.
C25_Fifo ==
    /\ Len(calls) <= Len(pushes)
    /\ \A k \in 1..Len(calls) : calls[k].what = pushes[k].what
    /\ isPrefix(delivered, dispatchable(inOneChunk(socket.sent)))

\* an LMTP session with PIPELINING: the two RCPT TO handlers were pending
\* together and got different responses, then the two handlers of the message
\* were pending together and got different responses
C25_Witness ==
    /\ options.lmtp
    /\ hasExtension(World, "PIPELINING")
    /\ Len(calls) = 8
    /\ calls[4].what.action = "_actionRCPT" /\ calls[4].str = <<"220">>
    /\ calls[5].what.action = "_actionRCPT" /\ calls[5].str = <<"250", "-", "PIPELINING", "\n", "250">>
    /\ calls[7].what = Handler("_actionLMTPStream", 1, <<"a">>, FALSE)
    /\ calls[7].str = <<"550">>
    /\ calls[8].what = Handler("_actionLMTPStream", 1, <<"b">>, TRUE)
    /\ calls[8].str = <<"220">>

\* a chunk arrived while two deferred _processResponse calls were pending
C25_ArrivalBetweenDispatches ==
    /\ Len(immediates) > MaxImmediates
    /\ conn.responseQueue # <<>>
    /\ conn.responseActions # <<>>

----------------------------------------------------------------------------
(* The order of the handlers and the commands *)

\* the place in the history of the last call of a handler, 0 when there is none
lastDispatch ==
    IF \E i \in 1..Len(trace) : trace[i].e = "call"
    THEN CHOOSE i \in 1..Len(trace) :
             /\ trace[i].e = "call"
             /\ \A j \in (i + 1)..Len(trace) : trace[j].e # "call"
    ELSE 0

isPushRCPT(ev) == ev.e = "push" /\ ev.what.action = "_actionRCPT"
isWriteRCPT(ev) == ev.e = "write" /\ ev.what = "RCPT TO"

\* the handler of MAIL FROM has just run the loop over the recipients on a
\* connection whose server advertised PIPELINING: the steps of the code since
\* its call are those of the loop
pipelinedSend ==
    /\ hasExtension(World, "PIPELINING")
    /\ conn.envelope.set
    /\ lastDispatch > 0
    /\ trace[lastDispatch].what.action = "_actionMAIL"
    /\ Len(trace) > lastDispatch
    /\ \A i \in (lastDispatch + 1)..Len(trace) : isPushRCPT(trace[i]) \/ isWriteRCPT(trace[i])

\* C30: with PIPELINING and N recipients, the N RCPT handlers are in the queue
\* when the first RCPT TO is written, and the N RCPT TO are written before a
\* response to one of them is handled.
C30_HandlersBeforeCommands ==
    pipelinedSend =>
        LET N == Len(conn.envelope.to)
        IN  /\ Len(trace) = lastDispatch + 2 * N
            /\ \A k \in 1..N :
                   /\ isPushRCPT(trace[lastDispatch + k])
                   /\ isWriteRCPT(trace[lastDispatch + N + k])
                   /\ trace[lastDispatch + N + k].str = conn.envelope.to[k]

\* C30 as amended: with PIPELINING and N recipients, the handler of MAIL FROM
\* writes the N RCPT TO in the order of the envelope before a response to one
\* of them is handled, each one right after the push of its own handler.
C30_EachHandlerBeforeItsCommand ==
    pipelinedSend =>
        LET N == Len(conn.envelope.to)
        IN  /\ Len(trace) = lastDispatch + 2 * N
            /\ \A k \in 1..N :
                   /\ isPushRCPT(trace[lastDispatch + 2 * k - 1])
                   /\ isWriteRCPT(trace[lastDispatch + 2 * k])
                   /\ trace[lastDispatch + 2 * k].str = conn.envelope.to[k]

\* two recipients with PIPELINING: both RCPT TO are written, no response to
\* them is handled yet, and two RCPT handlers are pending
C30_Witness ==
    /\ pipelinedSend
    /\ Len(conn.envelope.to) = 2
    /\ Len(trace) = lastDispatch + 4
    /\ Len(conn.responseActions) = 2

\* the handler that takes the response to the command cmd
handlerFor(cmd) ==
    CASE cmd = "EHLO" -> "_actionEHLO"
      [] cmd = "LHLO" -> "_actionLHLO"
      [] cmd = "HELO" -> "_actionHELO"
      [] cmd = "MAIL FROM" -> "_actionMAIL"
      [] cmd = "RCPT TO" -> "_actionRCPT"
      [] cmd = "DATA" -> "_actionDATA"
      [] cmd = "QUIT" -> "close"

\* the handler of the command written at place i of the history was pushed
\* right before it
pushedBefore(i) ==
    /\ i > 1
    /\ trace[i - 1].e = "push"
    /\ trace[i - 1].what.action = handlerFor(trace[i].what)

\* C29: when a command is written, its response handler has been pushed
\* before: the step of the code right before the write is the push of it.
C29_HandlerBeforeCommand ==
    \A i \in 1..Len(trace) : trace[i].e = "write" => pushedBefore(i)

\* the same for every command but QUIT, whose handler is pushed right after
C29_ExceptQuit ==
    \A i \in 1..Len(trace) :
        trace[i].e = "write" =>
            IF trace[i].what = "QUIT"
            THEN /\ ~pushedBefore(i)
                 /\ i < Len(trace)
                 /\ trace[i + 1].e = "push"
                 /\ trace[i + 1].what.action = "close"
            ELSE pushedBefore(i)

----------------------------------------------------------------------------
(* The upgrade to TLS *)

\* the 2xx response to STARTTLS is handled and the handshake is not complete
duringUpgrade == conn.upgrading /\ ~conn.secure

\* C31: from the handling of the 2xx response to STARTTLS until the handshake
\* completes no command is written, and no bytes reach the framer: the
\* remainder of the framer stays and no line joins the response queue.
C31_UpgradeIsBarrier ==
    [][(duringUpgrade /\ duringUpgrade') =>
           /\ written' = written
           /\ conn'.remainder = conn.remainder
           /\ Len(conn'.responseQueue) <= Len(conn.responseQueue)]_vars

\* the handshake is under way on an open socket, STARTTLS the last command
C31_Witness ==
    /\ duringUpgrade
    /\ socket.state = "open"
    /\ socket.layer = "handshake"
    /\ ~conn.destroyed
    /\ written[Len(written)].cmd = "STARTTLS"

----------------------------------------------------------------------------
(* The capability registry *)

\* the members of a list
membersOf(list) == {list[i] : i \in 1..Len(list)}

\* the extensions and the mechanisms a response to EHLO advertises, of those
\* the code looks for
extensionsIn(str) ==
    {kw \in {"SMTPUTF8", "DSN", "8BITMIME", "PIPELINING"} : hasKeyword(str, kw)}
        \cup (IF sizeMatch(str) # 0 THEN {"SIZE"} ELSE {})
mechanismsIn(str) == {m \in {"PLAIN", "LOGIN", "CRAM-MD5", "XOAUTH2"} : hasAuth(str, m)}

\* C32: when 'connect' was emitted after a 2xx response to EHLO or LHLO, the
\* supported extensions, the supported mechanisms and the maximum size are
\* those of that response, also when STARTTLS was refused and the connection
\* continues unencrypted.
C32_RegistryOfLastEHLO ==
    (connected /\ charAt0(lastEHLO) = "2") =>
        /\ membersOf(conn.supportedExtensions) = extensionsIn(lastEHLO)
        /\ membersOf(conn.supportedAuth) = mechanismsIn(lastEHLO)
        /\ conn.maxAllowedSize = advertisedSize(lastEHLO)

\* the registry is that of the last EHLO when 'connect' comes from the handler
\* of EHLO itself
C32_WhenEHLOEmitsConnect ==
    (connected /\ charAt0(lastEHLO) = "2"
         /\ written[Len(written)].cmd # "STARTTLS"
         /\ \A i \in 1..Len(written) : written[i].cmd = "STARTTLS" => conn.secure) =>
        /\ membersOf(conn.supportedExtensions) = extensionsIn(lastEHLO)
        /\ membersOf(conn.supportedAuth) = mechanismsIn(lastEHLO)
        /\ conn.maxAllowedSize = advertisedSize(lastEHLO)

----------------------------------------------------------------------------
(* The authenticated flag *)

\* the commands of a login sequence: AUTH and the lines that continue it
LoginCommands ==
    {"AUTH PLAIN", "AUTH LOGIN", "AUTH CRAM-MD5", "AUTH NTLM", "AUTH XOAUTH2",
     "<user>", "<pass>", "<hmac>", "<type3>", ""}

\* the places of the first p steps of a history h that are of the kind e
placesOf(h, e, p) == {i \in 1..p : h[i].e = e}

\* the server answers in step: a response is handled only when a command was
\* written for it, the first response being the greeting
inStep(h) ==
    \A p \in placesOf(h, "call", Len(h)) :
        Cardinality(placesOf(h, "call", p)) <= 1 + Cardinality(placesOf(h, "write", p))

\* the command that the last response handled answers: the n-th command for
\* the response n + 1
commandAnswered(h) ==
    LET n == Cardinality(placesOf(h, "call", Len(h))) - 1
        p == CHOOSE i \in placesOf(h, "write", Len(h)) :
                 Cardinality(placesOf(h, "write", i)) = n
    IN  h[p].what

\* this step sets the authenticated flag
authenticates == ~conn.authenticated /\ conn'.authenticated

\* C33: the authenticated flag is FALSE at first and becomes TRUE only in the
\* handling of a 2xx response that answers a command of a login sequence,
\* never in the handling of the response to another command.
C33_AuthenticatedByLoginOnly ==
    /\ (trace = <<>> => ~conn.authenticated)
    /\ [][(authenticates /\ inStep(trace')) =>
              /\ Len(trace') = Len(trace) + 1
              /\ trace'[Len(trace')].e = "call"
              /\ charAt0(trace'[Len(trace')].str) = "2"
              /\ commandAnswered(trace') \in LoginCommands]_vars

\* the flag is set in the handling of the 235 that answers AUTH PLAIN
C33_Witness ==
    /\ conn.authenticated
    /\ inStep(trace)
    /\ trace[Len(trace)].e = "call"
    /\ trace[Len(trace)].str = <<"235", " ", "ok">>
    /\ commandAnswered(trace) = "AUTH PLAIN"

\* the flag is set in the handling of the response to RSET, by the handler a
\* login left in the queue when its token provider failed
C33_SetByResetResponse ==
    /\ conn.authenticated
    /\ inStep(trace)
    /\ trace[Len(trace)].e = "call"
    /\ commandAnswered(trace) = "RSET"

----------------------------------------------------------------------------
(* requireTLS and the 'connect' event *)

\* C34: with requireTLS, whatever the other options, 'connect' is emitted only
\* on a secure connection.
C34_ConnectOnlyWhenSecure ==
    (options.requireTLS /\ connected) => conn.secure

\* the same, when neither ignoreTLS nor opportunisticTLS is set
C34_WithoutIgnoreAndOpportunistic ==
    (options.requireTLS /\ ~options.ignoreTLS /\ ~options.opportunisticTLS /\ connected) =>
        conn.secure

\* 'connect' on a plaintext connection with requireTLS and ignoreTLS
C34_PlaintextWithIgnoreTLS ==
    /\ options.requireTLS /\ options.ignoreTLS /\ ~options.opportunisticTLS
    /\ connected /\ ~conn.secure

\* 'connect' on a plaintext connection with requireTLS and opportunisticTLS,
\* after the server refused STARTTLS
C34_PlaintextWithOpportunisticTLS ==
    /\ options.requireTLS /\ ~options.ignoreTLS /\ options.opportunisticTLS
    /\ connected /\ ~conn.secure
    /\ written[Len(written)].cmd = "STARTTLS"

\* C35: when the handshake completes, the remainder of the framer and the
\* response queue hold nothing: no byte received before the upgrade becomes
\* part of a response handled after it.
C35_NothingKeptAcrossUpgrade ==
    [][handshakeCompletes =>
           /\ conn'.remainder = <<>>
           /\ conn'.responseQueue = <<>>]_vars

\* the responses that were whole when the upgrade began are handled before the
\* handshake completes
C35_QueueEmptyAtHandshake ==
    [][handshakeCompletes => conn'.responseQueue = <<>>]_vars

\* the handshake is complete and EHLO is written again, while the remainder
\* of the framer holds the text that arrived right after the response to
\* STARTTLS: the response to that EHLO will begin with it
C35_PlaintextKept ==
    /\ conn.secure
    /\ ~conn.destroyed
    /\ trace[Len(trace)].e = "write"
    /\ trace[Len(trace)].what = "EHLO"
    /\ conn.remainder = <<"250">>

----------------------------------------------------------------------------
(* Liveness of send *)

\* the i-th send was called; its callback was called
sendStarted(i) == Len(user.sends) >= i
sendDone(i) == Len(user.sends) >= i /\ user.sends[i].done # <<>>

\* this step calls the callback of the i-th send with a success
succeeds(i) ==
    /\ sendStarted(i)
    /\ user.sends[i].done = <<>>
    /\ user'.sends[i].done # <<>>
    /\ user'.sends[i].done[1].err = ""

\* C36: when the server answers every command and the message and the socket
\* neither closes, fails nor times out, every call of send has its callback
\* called in the end, and the handler queue is empty after a successful send.
C36_SendTerminates ==
    /\ \A i \in 1..MaxSends : sendStarted(i) ~> sendDone(i)
    /\ [][\A i \in 1..MaxSends : succeeds(i) => conn'.responseActions = <<>>]_vars

\* a send of a message to two recipients has succeeded with the response of
\* the server to the message, and no handler is left
C36_Witness ==
    /\ sendDone(1)
    /\ user.sends[1].done[1].err = ""
    /\ Len(user.sends[1].done[1].accepted) = 2
    /\ user.sends[1].done[1].response # <<>>
    /\ conn.responseActions = <<>>

====
